---- MODULE Spec2Model ----
(***************************************************************************)
(* Calibration-driven angle engine of the gauge cluster.                   *)
(*                                                                         *)
(*   AngleCalculator       (src/src/angle_calculator.py): pixel positions  *)
(*                         -> bearings -> global unwrap -> interpolation   *)
(*   NeedleAngleCalculator (src/src/calibration_utils.py): value -> angle  *)
(*                         points, per-segment wraparound correction       *)
(*                                                                         *)
(*   ImageBasedGauge       (src/backups/base_model_2026-02-09/             *)
(*                         image_gauge.py): loading a calibration, the     *)
(*                         derived needle geometry, the registry of named  *)
(*                         needles and the size and angle they are drawn at*)
(*   GaugeCalibratorV2     (src/src/gauge_calibrator_v2.py): the clicks    *)
(*                         and resets of a calibration session             *)
(*   NeedleCalibration, PositionBasedNeedleCalibration                     *)
(*                         (src/src/gauge_calibrator_v2.py,                *)
(*                         src/src/gauge_config.py): to_dict and from_dict *)
(*                                                                         *)
(* Angles are exact rationals [num, den] (den > 0) in degrees: Python's    *)
(* float arithmetic is modelled without rounding error.  atan2 is modelled *)
(* on the pixel offsets whose bearing is a whole number of degrees (the    *)
(* axes and the diagonals).  An attribute that may be None is a sequence   *)
(* of at most one element.                                                 *)
(***************************************************************************)
EXTENDS Integers, Sequences, FiniteSets, TLC

VARIABLES
    self,                 \* the class of the calculator object the calls are made on
    gauge_pivot,          \* AngleCalculator.gauge_pivot_x, gauge_pivot_y
    calibration_points,   \* AngleCalculator.calibration_points
    needle_points,        \* NeedleAngleCalculator.calibration_points
    gauge,                \* the attributes of the ImageBasedGauge object
    session,              \* the attributes of the GaugeCalibratorV2 object, or a calibration
    config,               \* the needle_calibrations of the gauge's config file
    ret                   \* the last call: its name, arguments and result

vars == <<self, gauge_pivot, calibration_points, needle_points, gauge, session, config, ret>>

-----------------------------------------------------------------------------
(* Bounds of the model *)

MaxPoints == 3      \* at most this many calibration points in a set
MaxValue == 3       \* the largest calibration value
MaxList == 2        \* at most this many entries in a list loaded at once

(* Program constants *)

FullTurn == 360
HalfTurn == 180

\* Calibration values, unevenly spaced, and the values queried: every
\* calibration value, every value between two of them, one below and one above.
Values == {0, 1, MaxValue}
Queries == (0 - 1)..(MaxValue + 1)

\* The gauge pivot of the calculators under check (tests/test_calibrator_v2.py).
Pivots == {<<256, 256>>}

\* Pixel positions a calibration point is placed at: above, right of, below
\* and below-left of the pivot (bearings 270, 0, 90 and 135).
Clicks == {<<256, 100>>, <<410, 256>>, <<256, 410>>, <<102, 410>>}

\* Angles a value->angle calibration is configured with (the presets use
\* angles of 0..270 and -60).
NeedleAngles == {0 - 60, 0, 90, 270}

\* Pivots, directions and distances calculate_angle_to_point is applied to.
BearingPivots == {<<0, 0>>, <<1, 1>>, <<128, 145>>, <<256, 256>>, <<400, 300>>}
Directions == {<<1, 0>>, <<1, 1>>, <<0, 1>>, <<0 - 1, 1>>,
               <<0 - 1, 0>>, <<0 - 1, 0 - 1>>, <<0, 0 - 1>>, <<1, 0 - 1>>}
Distances == {0, 1, 100, 154}

-----------------------------------------------------------------------------
(* Rational numbers: the model of Python floats *)

Rat(n, d) == [num |-> n, den |-> d]
Int2Rat(n) == Rat(n, 1)
RatEq(a, b) == a.num * b.den = b.num * a.den
RatLt(a, b) == a.num * b.den < b.num * a.den
RatLe(a, b) == a.num * b.den <= b.num * a.den

\* Python's x % m for a positive m: the result has the sign of m.
RatMod(a, m) == Rat(a.num % (m * a.den), a.den)

-----------------------------------------------------------------------------
(* angle_calculator.py *)

\* math.degrees(math.atan2(dy, dx)), in (-180, 180].
Atan2Deg(dy, dx) ==
    CASE dx > 0 /\ dy = 0 -> 0
      [] dx > 0 /\ dy = dx -> 45
      [] dx = 0 /\ dy > 0 -> 90
      [] dx < 0 /\ dy = 0 - dx -> 135
      [] dx < 0 /\ dy = 0 -> 180
      [] dx < 0 /\ dy = dx -> 0 - 135
      [] dx = 0 /\ dy < 0 -> 0 - 90
      [] dx > 0 /\ dy = 0 - dx -> 0 - 45
      [] dx = 0 /\ dy = 0 -> 0

\* Mutant: the negative angles of atan2 not brought into 0..360.
calculate_angle_to_point_signed(gauge_pivot_x, gauge_pivot_y, point_x, point_y) ==
    Atan2Deg(point_y - gauge_pivot_y, point_x - gauge_pivot_x)

calculate_angle_to_point(gauge_pivot_x, gauge_pivot_y, point_x, point_y) ==
    LET dy == point_y - gauge_pivot_y
        dx == point_x - gauge_pivot_x
        angle_degrees == Atan2Deg(dy, dx)
    IN  IF angle_degrees < 0 THEN angle_degrees + FullTurn ELSE angle_degrees

CalibrationPoint(x, y, value) == [x |-> x, y |-> y, value |-> value]

\* Mutant: an unstable sort, which puts an element before its equals.
RECURSIVE InsertByValue_before_equal(_, _)
InsertByValue_before_equal(sorted, p) ==
    IF sorted = <<>> THEN <<p>>
    ELSE IF p.value <= sorted[Len(sorted)].value
         THEN Append(InsertByValue_before_equal(SubSeq(sorted, 1, Len(sorted) - 1), p),
                     sorted[Len(sorted)])
         ELSE Append(sorted, p)

\* list.sort(key=lambda p: p.value): Python's sort is stable, so an element
\* goes after every element whose key is not greater.
RECURSIVE InsertByValue(_, _)
InsertByValue(sorted, p) ==
    IF sorted = <<>> THEN <<p>>
    ELSE IF p.value < sorted[Len(sorted)].value
         THEN Append(InsertByValue(SubSeq(sorted, 1, Len(sorted) - 1), p),
                     sorted[Len(sorted)])
         ELSE Append(sorted, p)

RECURSIVE SortByValue(_)
SortByValue(s) ==
    IF s = <<>> THEN <<>>
    ELSE InsertByValue(SortByValue(SubSeq(s, 1, Len(s) - 1)), s[Len(s)])

\* Mutant: the point appended and the list left unsorted.
add_point_appending(points, x, y, value) ==
    Append(points, CalibrationPoint(x, y, value))

\* AngleCalculator.add_point: append, then sort.
add_point(points, x, y, value) ==
    SortByValue(Append(points, CalibrationPoint(x, y, value)))

\* AngleCalculator.points_from_list: clear, then add_point each entry in turn.
RECURSIVE points_from_list(_)
points_from_list(points) ==
    IF points = <<>> THEN <<>>
    ELSE LET p == points[Len(points)]
         IN  add_point(points_from_list(SubSeq(points, 1, Len(points) - 1)),
                       p.x, p.y, p.value)

\* The raw bearings of the points, in list order.
RawAngles(pivot, points) ==
    [i \in 1..Len(points) |->
        calculate_angle_to_point(pivot[1], pivot[2], points[i].x, points[i].y)]

\* Mutant: the "> 180" loop left out.
UnwrapDown_missing(a, prev) == a

\* while angles[i] - angles[i-1] > 180: angles[i] -= 360
RECURSIVE UnwrapDown(_, _)
UnwrapDown(a, prev) ==
    IF a - prev > HalfTurn THEN UnwrapDown(a - FullTurn, prev) ELSE a

\* Mutant: "<= -180" for "< -180", which turns a step of -180 into +180.
RECURSIVE UnwrapUp_inclusive(_, _)
UnwrapUp_inclusive(a, prev) ==
    IF a - prev <= 0 - 180 THEN UnwrapUp_inclusive(a + 360, prev) ELSE a

\* while angles[i] - angles[i-1] < -180: angles[i] += 360
RECURSIVE UnwrapUp(_, _)
UnwrapUp(a, prev) ==
    IF a - prev < 0 - HalfTurn THEN UnwrapUp(a + FullTurn, prev) ELSE a

\* for i in range(1, len(angles)): the two while loops, in place.
RECURSIVE Unwrap(_)
Unwrap(angles) ==
    IF Len(angles) <= 1 THEN angles
    ELSE LET n == Len(angles)
             head == Unwrap(SubSeq(angles, 1, n - 1))
         IN  Append(head, UnwrapUp(UnwrapDown(angles[n], head[n - 1]), head[n - 1]))

UnwrappedAngles(pivot, points) == Unwrap(RawAngles(pivot, points))

\* Mutant: the fraction taken by integer division.
Interpolate_floor(a1, a2, v1, v2, value) ==
    Rat(a1 + ((value - v1) \div (v2 - v1)) * (a2 - a1), 1)

\* Mutant: the fraction measured from the segment's upper value.
Interpolate_reversed(a1, a2, v1, v2, value) ==
    Rat(a1 * (v2 - v1) + (v2 - value) * (a2 - a1), v2 - v1)

\* The segment interpolation of value_to_angle.
Interpolate(a1, a2, v1, v2, value) ==
    Rat(a1 * (v2 - v1) + (value - v1) * (a2 - a1), v2 - v1)

\* Mutant: the interpolated angle returned without "% 360".
RECURSIVE FindBracket_unwrapped(_, _, _, _)
FindBracket_unwrapped(points, angles, value, i) ==
    IF i > Len(points) - 1 THEN RatMod(Int2Rat(angles[Len(angles)]), 360)
    ELSE IF points[i].value <= value /\ value <= points[i + 1].value
         THEN IF points[i + 1].value = points[i].value
              THEN RatMod(Int2Rat(angles[i]), 360)
              ELSE Interpolate(angles[i], angles[i + 1], points[i].value,
                               points[i + 1].value, value)
         ELSE FindBracket_unwrapped(points, angles, value, i + 1)

\* for i in range(len(points) - 1): the first bracketing segment decides.
RECURSIVE FindBracket(_, _, _, _)
FindBracket(points, angles, value, i) ==
    IF i > Len(points) - 1 THEN RatMod(Int2Rat(angles[Len(angles)]), FullTurn)
    ELSE IF points[i].value <= value /\ value <= points[i + 1].value
         THEN IF points[i + 1].value = points[i].value
              THEN RatMod(Int2Rat(angles[i]), FullTurn)
              ELSE RatMod(Interpolate(angles[i], angles[i + 1], points[i].value,
                                      points[i + 1].value, value), FullTurn)
         ELSE FindBracket(points, angles, value, i + 1)

\* Mutant: out-of-range values extrapolated along the end segments.
value_to_angle_extrapolating(pivot, points, value) ==
    IF points = <<>> THEN Int2Rat(0)
    ELSE LET angles == UnwrappedAngles(pivot, points)
             n == Len(points)
         IN  IF n = 1 THEN RatMod(Int2Rat(angles[1]), 360)
             ELSE IF value <= points[1].value
                  THEN IF points[2].value = points[1].value
                       THEN RatMod(Int2Rat(angles[1]), 360)
                       ELSE RatMod(Interpolate(angles[1], angles[2], points[1].value,
                                               points[2].value, value), 360)
                  ELSE IF value >= points[n].value
                       THEN IF points[n].value = points[n - 1].value
                            THEN RatMod(Int2Rat(angles[n]), 360)
                            ELSE RatMod(Interpolate(angles[n - 1], angles[n],
                                                    points[n - 1].value,
                                                    points[n].value, value), 360)
                       ELSE FindBracket(points, angles, value, 1)

\* AngleCalculator.value_to_angle for a non-empty list: unwrap, clamp, search.
ResolveAngle(pivot, points, value) ==
    LET angles == UnwrappedAngles(pivot, points)
    IN  IF value <= points[1].value
        THEN RatMod(Int2Rat(angles[1]), FullTurn)
        ELSE IF value >= points[Len(points)].value
             THEN RatMod(Int2Rat(angles[Len(angles)]), FullTurn)
             ELSE FindBracket(points, angles, value, 1)

\* The result of a call that raises IndexError.
IndexError == Rat(1, 0)

\* Mutant: the test for an empty list left out, so points[0] raises.
value_to_angle_unguarded(pivot, points, value) ==
    IF points = <<>> THEN IndexError ELSE ResolveAngle(pivot, points, value)

\* Mutant: fewer than two points treated as no calibration.
value_to_angle_needs_two(pivot, points, value) ==
    IF Len(points) < 2 THEN Int2Rat(0) ELSE ResolveAngle(pivot, points, value)

\* AngleCalculator.value_to_angle
value_to_angle(pivot, points, value) ==
    IF points = <<>> THEN Int2Rat(0) ELSE ResolveAngle(pivot, points, value)

-----------------------------------------------------------------------------
(* calibration_utils.py *)

NeedlePoint(value, angle) == [value |-> value, angle |-> angle]

\* The result of a call that raises ZeroDivisionError.
ZeroDivisionError == Rat(0, 0)

\* NeedleAngleCalculator._validate_points: sort by value when non-empty.
_validate_points(points) ==
    IF points # <<>> THEN SortByValue(points) ELSE points

\* NeedleAngleCalculator.add_point
needle_add_point(points, value, angle) ==
    _validate_points(Append(points, NeedlePoint(value, angle)))

\* NeedleAngleCalculator.set_points (and __init__ with a list of points)
set_points(list) == _validate_points(list)

\* Mutant: the range between two angles taken as it is, the long way round.
WrapRange_uncorrected(angle_range) == angle_range

\* if angle_range > 180: -= 360  elif angle_range < -180: += 360
WrapRange(angle_range) ==
    IF angle_range > HalfTurn THEN angle_range - FullTurn
    ELSE IF angle_range < 0 - HalfTurn THEN angle_range + FullTurn
         ELSE angle_range

\* angle = angle % 360; if angle < 0: angle += 360
Normalize(angle) ==
    LET m == RatMod(angle, FullTurn)
    IN  IF m.num < 0 THEN Rat(m.num + FullTurn * m.den, m.den) ELSE m

\* The body of the interpolation branch of NeedleAngleCalculator.value_to_angle.
NeedleInterpolate(p1, p2, value) ==
    LET value_range == p2.value - p1.value
        angle_range == WrapRange(p2.angle - p1.angle)
    IN  IF value_range = 0 THEN ZeroDivisionError
        ELSE Normalize(Rat(p1.angle * value_range
                           + angle_range * (value - p1.value), value_range))

\* for i in range(len(self.calibration_points) - 1)
RECURSIVE NeedleFindBracket(_, _, _)
NeedleFindBracket(points, value, i) ==
    IF i > Len(points) - 1 THEN Int2Rat(points[1].angle)
    ELSE IF points[i].value <= value /\ value <= points[i + 1].value
         THEN NeedleInterpolate(points[i], points[i + 1], value)
         ELSE NeedleFindBracket(points, value, i + 1)

\* NeedleAngleCalculator.value_to_angle
needle_value_to_angle(points, value) ==
    IF points = <<>> THEN Int2Rat(0)
    ELSE IF value <= points[1].value THEN Int2Rat(points[1].angle)
         ELSE IF value >= points[Len(points)].value
              THEN Int2Rat(points[Len(points)].angle)
              ELSE NeedleFindBracket(points, value, 1)

-----------------------------------------------------------------------------
(* The calls *)

\* Sequences of at most n elements of S.
SeqUpTo(S, n) == UNION {[1..k -> S] : k \in 0..n}

\* The entries of the lists loaded at once: two of them share a value.
PointDicts == {CalibrationPoint(256, 100, 0), CalibrationPoint(410, 256, 0),
               CalibrationPoint(256, 410, MaxValue)}
NeedleTuples == {NeedlePoint(0, 270), NeedlePoint(0, 0 - 60),
                 NeedlePoint(MaxValue, 0)}

\* The lists points_from_list, set_points and the constructor are given.
PointLists == SeqUpTo(PointDicts, MaxList)
NeedleLists == SeqUpTo(NeedleTuples, MaxList)

Ret(op, args, angle) == [op |-> op, args |-> args, angle |-> angle]

\* Python's None, and an attribute that holds a value.
None == <<>>
Some(x) == <<x>>

Init ==
    /\ self = "AngleCalculator"
    /\ gauge_pivot \in Pivots
    /\ calibration_points = <<>>
    /\ needle_points = <<>>
    /\ gauge = None
    /\ session = None
    /\ config = None
    /\ ret = Ret("init", <<>>, Int2Rat(0))

AddPoint ==
    \E c \in Clicks, v \in Values :
        /\ self = "AngleCalculator"
        /\ Len(calibration_points) < MaxPoints
        /\ calibration_points' = add_point(calibration_points, c[1], c[2], v)
        /\ ret' = Ret("add_point", <<>>, Int2Rat(0))
        /\ UNCHANGED <<self, gauge_pivot, needle_points, gauge, session, config>>

PointsFromList ==
    \E list \in PointLists :
        /\ self = "AngleCalculator"
        /\ calibration_points' = points_from_list(list)
        /\ ret' = Ret("points_from_list", <<list>>, Int2Rat(0))
        /\ UNCHANGED <<self, gauge_pivot, needle_points, gauge, session, config>>

ValueToAngle ==
    \E v \in Queries :
        /\ self = "AngleCalculator"
        /\ ret' = Ret("value_to_angle", <<v>>,
                      value_to_angle(gauge_pivot, calibration_points, v))
        /\ UNCHANGED <<self, gauge_pivot, calibration_points, needle_points, gauge, session, config>>

Next ==
    \/ AddPoint
    \/ PointsFromList
    \/ ValueToAngle

Spec == Init /\ [][Next]_vars

\* NeedleAngleCalculator(calibration_points): the list given, sorted.
InitNeedle ==
    /\ self = "NeedleAngleCalculator"
    /\ gauge_pivot \in Pivots
    /\ calibration_points = <<>>
    /\ gauge = None
    /\ session = None
    /\ config = None
    /\ \E list \in NeedleLists :
          /\ needle_points = set_points(list)
          /\ ret = Ret("init", <<list>>, Int2Rat(0))

NeedleAddPoint ==
    \E v \in Values, a \in NeedleAngles :
        /\ self = "NeedleAngleCalculator"
        /\ Len(needle_points) < MaxPoints
        /\ needle_points' = needle_add_point(needle_points, v, a)
        /\ ret' = Ret("add_point", <<>>, Int2Rat(0))
        /\ UNCHANGED <<self, gauge_pivot, calibration_points, gauge, session, config>>

NeedleSetPoints ==
    \E list \in NeedleLists :
        /\ self = "NeedleAngleCalculator"
        /\ needle_points' = set_points(list)
        /\ ret' = Ret("set_points", <<list>>, Int2Rat(0))
        /\ UNCHANGED <<self, gauge_pivot, calibration_points, gauge, session, config>>

\* Mutant: the call brings the configured angles into 0..360 in place.
NeedleValueToAngle_normalizing ==
    \E v \in Queries :
        /\ self = "NeedleAngleCalculator"
        /\ ret' = Ret("value_to_angle", <<v>>, needle_value_to_angle(needle_points, v))
        /\ needle_points' = [i \in 1..Len(needle_points) |->
                                NeedlePoint(needle_points[i].value,
                                            needle_points[i].angle % FullTurn)]
        /\ UNCHANGED <<self, gauge_pivot, calibration_points, gauge, session, config>>

NeedleValueToAngle ==
    \E v \in Queries :
        /\ self = "NeedleAngleCalculator"
        /\ ret' = Ret("value_to_angle", <<v>>, needle_value_to_angle(needle_points, v))
        /\ UNCHANGED <<self, gauge_pivot, calibration_points, needle_points, gauge, session, config>>

NextNeedle ==
    \/ NeedleAddPoint
    \/ NeedleSetPoints
    \/ NeedleValueToAngle

SpecNeedle == InitNeedle /\ [][NextNeedle]_vars

\* A calculator of either class, and the calls of its class.
InitBoth == Init \/ InitNeedle

NextBoth ==
    \/ AddPoint
    \/ PointsFromList
    \/ ValueToAngle
    \/ NeedleAddPoint
    \/ NeedleSetPoints
    \/ NeedleValueToAngle

SpecBoth == InitBoth /\ [][NextBoth]_vars

\* calculate_angle_to_point applied to a pivot and a point.
CalculateAngleToPoint ==
    \E pivot \in BearingPivots, d \in Directions, r \in Distances :
        LET x == pivot[1] + r * d[1]
            y == pivot[2] + r * d[2]
        IN  /\ ret' = Ret("calculate_angle_to_point", <<pivot[1], pivot[2], x, y>>,
                          Int2Rat(calculate_angle_to_point(pivot[1], pivot[2], x, y)))
            /\ UNCHANGED <<self, gauge_pivot, calibration_points, needle_points, gauge, session, config>>

NextBearing == CalculateAngleToPoint

SpecBearing == Init /\ [][NextBearing]_vars

-----------------------------------------------------------------------------
(* Properties of AngleCalculator.value_to_angle *)

\* The last call was value_to_angle on the AngleCalculator; Query is its argument.
Called == self = "AngleCalculator" /\ ret.op = "value_to_angle"
Query == ret.args[1]

\* The bearing from the gauge pivot to a calibration point, mod 360.
Bearing(p) ==
    calculate_angle_to_point(gauge_pivot[1], gauge_pivot[2], p.x, p.y) % FullTurn

Unwrapped == UnwrappedAngles(gauge_pivot, calibration_points)
Raw == RawAngles(gauge_pivot, calibration_points)
NPoints == Len(calibration_points)

\* C1 as stated: with at least 2 points, value_to_angle at the value of ANY
\* calibration point returns the bearing of that point (duplicate values
\* included).
C1_Original ==
    (Called /\ NPoints >= 2) =>
        \A i \in 1..NPoints :
            calibration_points[i].value = Query =>
                RatEq(ret.angle, Int2Rat(Bearing(calibration_points[i])))

\* C1 (amended): with at least 2 points, value_to_angle at the value of a
\* calibration point whose value no other point shares returns the bearing
\* of that point mod 360.
C1_ExactAtUniqueValue ==
    (Called /\ NPoints >= 2) =>
        \A i \in 1..NPoints :
            (/\ calibration_points[i].value = Query
             /\ \A j \in 1..NPoints : j # i => calibration_points[j].value # Query) =>
                RatEq(ret.angle, Int2Rat(Bearing(calibration_points[i])))

\* Scenario A: pivot (256,256), points above, right of and below the pivot;
\* the middle value resolves to 0 degrees.
C1_Witness ==
    /\ Called
    /\ gauge_pivot = <<256, 256>>
    /\ calibration_points = <<CalibrationPoint(256, 100, 0),
                              CalibrationPoint(410, 256, 1),
                              CalibrationPoint(256, 410, 3)>>
    /\ Query = 1
    /\ ret.angle = Int2Rat(0)

C3_LinearOnSegment ==
    Called =>
        /\ \A i \in 1..(NPoints - 1) :
              LET a == calibration_points[i].value
                  b == calibration_points[i + 1].value
              IN  (a < Query /\ Query < b) =>
                      RatEq(ret.angle,
                            RatMod(Rat(Unwrapped[i] * (b - a)
                                       + (Query - a) * (Unwrapped[i + 1] - Unwrapped[i]),
                                       b - a), FullTurn))
        /\ (/\ calibration_points = <<CalibrationPoint(256, 100, 1),
                                       CalibrationPoint(102, 410, 3)>>
            /\ Query = 2) =>
               (RatLt(Int2Rat(200), ret.angle) /\ RatLt(ret.angle, Int2Rat(210)))

\* The midpoint of the segment from bearing 270 to bearing 135 is 202.5.
C3_Witness ==
    /\ Called
    /\ calibration_points = <<CalibrationPoint(256, 100, 1),
                              CalibrationPoint(102, 410, 3)>>
    /\ Query = 2
    /\ ret.angle = Rat(405, 2)

\* C4: the unwrapped bearings value_to_angle computes differ by at most 180
\* between neighbours, and each is congruent mod 360 to the raw bearing of
\* its point.
C4_UnwrapInvariant ==
    Called =>
        /\ \A i \in 1..(NPoints - 1) :
              /\ Unwrapped[i + 1] - Unwrapped[i] <= 180
              /\ Unwrapped[i] - Unwrapped[i + 1] <= 180
        /\ \A i \in 1..NPoints : (Unwrapped[i] - Raw[i]) % FullTurn = 0

\* A set whose unwrapped bearings differ from the raw ones (the sweep crosses
\* the 0/360 seam).
C4_Witness ==
    /\ Called
    /\ NPoints >= 2
    /\ \E i \in 2..NPoints : Raw[i] - Raw[i - 1] > 180 /\ Unwrapped[i] # Raw[i]

\* C5 as stated: every consecutive difference of unwrapped bearings lies in
\* (-180, 180], -180 excluded.
C5_Original ==
    Called =>
        \A i \in 2..NPoints :
            /\ Unwrapped[i] - Unwrapped[i - 1] > 0 - 180
            /\ Unwrapped[i] - Unwrapped[i - 1] <= 180

\* C5 (amended): every consecutive difference of unwrapped bearings lies in
\* the closed interval [-180, 180]: a bearing 180 below or 180 above its
\* predecessor is left as it is.
C5_ClosedInterval ==
    Called =>
        \A i \in 2..NPoints :
            /\ Unwrapped[i] - Unwrapped[i - 1] >= 0 - 180
            /\ Unwrapped[i] - Unwrapped[i - 1] <= 180
            /\ Raw[i] - Unwrapped[i - 1] = 0 - 180 => Unwrapped[i] = Raw[i]
            /\ Raw[i] - Unwrapped[i - 1] = 180 => Unwrapped[i] = Raw[i]

\* Bearing 270 followed by bearing 90: the difference stays -180.
C5_Witness ==
    /\ Called
    /\ \E i \in 2..NPoints : Unwrapped[i] - Unwrapped[i - 1] = 0 - 180

-----------------------------------------------------------------------------
(* Properties of both calculators *)

NeedleCalled == self = "NeedleAngleCalculator" /\ ret.op = "value_to_angle"
NNeedle == Len(needle_points)

\* The call returned an angle in [0, 360) (and did not raise).
InRange(angle) == angle.den > 0 /\ RatLe(Int2Rat(0), angle) /\ RatLt(angle, Int2Rat(FullTurn))

\* C6: with an empty calibration set value_to_angle returns 0 for every v and
\* does not raise, in AngleCalculator and in NeedleAngleCalculator.
C6_EmptyIsZero ==
    /\ (Called /\ calibration_points = <<>>) => ret.angle = Int2Rat(0)
    /\ (NeedleCalled /\ needle_points = <<>>) => ret.angle = Int2Rat(0)

\* value_to_angle called on an AngleCalculator without points.
C6_Witness ==
    /\ Called
    /\ calibration_points = <<>>
    /\ Query = MaxValue
    /\ ret.angle = Int2Rat(0)

\* C7: with exactly one calibration point value_to_angle returns that
\* point's bearing mod 360 for every v, below, at or above the point's value.
C7_SinglePointFlat ==
    (Called /\ NPoints = 1) =>
        RatEq(ret.angle, Int2Rat(Bearing(calibration_points[1])))

\* One point at value 0 above the pivot, queried far above its value.
C7_Witness ==
    /\ Called
    /\ calibration_points = <<CalibrationPoint(256, 100, 0)>>
    /\ Query = MaxValue
    /\ ret.angle = Int2Rat(270)

\* C8 as stated: every angle returned by value_to_angle lies in [0, 360), in
\* both calculators, at clamped endpoints and on interpolated segments.
C8_Original ==
    (Called \/ NeedleCalled) => InRange(ret.angle)

\* C8 (amended): AngleCalculator.value_to_angle always returns an angle in
\* [0, 360); NeedleAngleCalculator.value_to_angle returns 0 for an empty set,
\* an angle in [0, 360) for a value strictly inside the calibrated range, and
\* the configured angle of the endpoint, as it is, for a clamped value.
C8_RangeOfAngles ==
    /\ Called => InRange(ret.angle)
    /\ (NeedleCalled /\ NNeedle = 0) => ret.angle = Int2Rat(0)
    /\ (NeedleCalled /\ NNeedle >= 1) =>
          LET lo == needle_points[1]
              hi == needle_points[NNeedle]
          IN  /\ Query <= lo.value => ret.angle = Int2Rat(lo.angle)
              /\ (Query > lo.value /\ Query >= hi.value) => ret.angle = Int2Rat(hi.angle)
              /\ (Query > lo.value /\ Query < hi.value) => InRange(ret.angle)

\* An interpolation of the AngleCalculator whose unwrapped angle is negative
\* (bearing 0 to bearing 270 goes through -45), returned in [0, 360).
C8_Witness ==
    /\ Called
    /\ NPoints >= 2
    /\ \E i \in 1..(NPoints - 1) :
          /\ calibration_points[i].value < Query
          /\ Query < calibration_points[i + 1].value
          /\ Unwrapped[i] = 0
          /\ Unwrapped[i + 1] < 0
    /\ InRange(ret.angle)

Sorted(s) == \A i \in 1..(Len(s) - 1) : s[i].value <= s[i + 1].value

RemoveAt(s, k) == SubSeq(s, 1, k - 1) \o SubSeq(s, k + 1, Len(s))

\* new is old with one element put in after its equals, old's order kept.
AddedAfterEquals(old, new) ==
    \E k \in 1..Len(new) :
        /\ RemoveAt(new, k) = old
        /\ \A j \in 1..(k - 1) : new[j].value <= new[k].value
        /\ \A j \in (k + 1)..Len(new) : new[j].value > new[k].value

\* out holds the elements of in, ascending by value, equals in the order of
\* in: for each value, the points of that value are the same sequence in both.
IsStableSortOf(out, in) ==
    /\ Len(out) = Len(in)
    /\ Sorted(out)
    /\ \A v \in Values :
          SelectSeq(out, LAMBDA p : p.value = v) = SelectSeq(in, LAMBDA p : p.value = v)

C9_Step ==
    /\ (self = "AngleCalculator" /\ ret'.op = "add_point") =>
          AddedAfterEquals(calibration_points, calibration_points')
    /\ (self = "AngleCalculator" /\ ret'.op = "points_from_list") =>
          IsStableSortOf(calibration_points', ret'.args[1])
    /\ (self = "NeedleAngleCalculator" /\ ret'.op = "add_point") =>
          AddedAfterEquals(needle_points, needle_points')
    /\ (self = "NeedleAngleCalculator" /\ ret'.op = "set_points") =>
          IsStableSortOf(needle_points', ret'.args[1])

\* C9: after any sequence of add_point and points_from_list (set_points)
\* calls the list is ascending by value, and points of equal value are in
\* the order in which they were added: every add_point puts the point after
\* its equals and keeps the others' order, every load yields its list sorted
\* with equals in list order.
C9_SortedStable ==
    /\ [](Sorted(calibration_points) /\ Sorted(needle_points))
    /\ [][C9_Step]_vars

\* A list loaded with two different points of one value, kept in list order.
C9_Witness ==
    /\ self = "AngleCalculator"
    /\ ret.op = "points_from_list"
    /\ Len(ret.args[1]) = 2
    /\ ret.args[1][1] # ret.args[1][2]
    /\ ret.args[1][1].value = ret.args[1][2].value
    /\ calibration_points = ret.args[1]

-----------------------------------------------------------------------------
(* Properties of calculate_angle_to_point *)

BearingCalled == ret.op = "calculate_angle_to_point"

\* C10: calculate_angle_to_point returns a bearing in [0, 360) in the screen
\* convention: right of the pivot 0, below 90, left 180, above 270.
C10_ScreenConvention ==
    BearingCalled =>
        LET px == ret.args[1]
            py == ret.args[2]
            x == ret.args[3]
            y == ret.args[4]
        IN  /\ InRange(ret.angle)
            /\ (y = py /\ x > px) => ret.angle = Int2Rat(0)
            /\ (x = px /\ y > py) => ret.angle = Int2Rat(90)
            /\ (y = py /\ x < px) => ret.angle = Int2Rat(180)
            /\ (x = px /\ y < py) => ret.angle = Int2Rat(270)

\* The point 100 pixels above the pivot (256,256) has bearing 270.
C10_Witness ==
    /\ BearingCalled
    /\ ret.args = <<256, 256, 256, 156>>
    /\ ret.angle = Int2Rat(270)

-----------------------------------------------------------------------------
(* More arithmetic on rationals *)

Abs(n) == IF n < 0 THEN 0 - n ELSE n

RECURSIVE Gcd(_, _)
Gcd(a, b) == IF b = 0 THEN a ELSE Gcd(b, a % b)

\* The same number in lowest terms; a raised exception (den = 0) stays one.
Reduce(r) ==
    IF r.den = 0
    THEN r
    ELSE LET g == Gcd(Abs(r.num), Abs(r.den))
             s == IF r.den < 0 THEN 0 - 1 ELSE 1
         IN  Rat(s * (r.num \div g), s * (r.den \div g))

RatSub(a, b) == Reduce(Rat(a.num * b.den - b.num * a.den, a.den * b.den))
RatMul(a, b) == Reduce(Rat(a.num * b.num, a.den * b.den))

\* Python's a / b: ZeroDivisionError for b = 0.
RatDiv(a, b) ==
    IF b.num = 0 \/ b.den = 0 \/ a.den = 0
    THEN ZeroDivisionError
    ELSE Reduce(Rat(a.num * b.den, a.den * b.num))

\* Python's int(a): truncation towards zero.
IntOf(a) ==
    IF a.num >= 0 THEN a.num \div a.den ELSE 0 - ((0 - a.num) \div a.den)

\* Python's n ** 0.5 for the square n of a whole number: the root, found by
\* bisection of lo..hi.
RECURSIVE SqrtBetween(_, _, _)
SqrtBetween(n, lo, hi) ==
    IF lo = hi
    THEN lo
    ELSE LET mid == (lo + hi + 1) \div 2
         IN  IF mid * mid <= n
             THEN SqrtBetween(n, mid, hi)
             ELSE SqrtBetween(n, lo, mid - 1)

Sqrt(n) == SqrtBetween(n, 0, n)

\* Python's truth value of an attribute holding None or a number.
Truthy(x) == x # None /\ x[1].num # 0

-----------------------------------------------------------------------------
(* image_gauge.py: ImageBasedGauge *)

\* A whole number of pixels held by an attribute.
Px(n) == Some(Int2Rat(n))

\* A Python dict: its <<key, value>> items in insertion order.
DictKeys(d) == [i \in 1..Len(d) |-> d[i][1]]
DictHas(d, k) == \E i \in 1..Len(d) : d[i][1] = k
DictGet(d, k) == d[CHOOSE i \in 1..Len(d) : d[i][1] = k][2]
DictSet(d, k, v) ==
    IF DictHas(d, k)
    THEN [i \in 1..Len(d) |-> IF d[i][1] = k THEN <<k, v>> ELSE d[i]]
    ELSE Append(d, <<k, v>>)
DictDel(d, k) == SelectSeq(d, LAMBDA item : item[1] # k)

\* ImageBasedGauge(bg_image_path, needle_image_path): bg is the size of the
\* background pixmap (None, None when it failed to load), needle the kind of
\* needle image that loaded ("svg", "png" or "none").  The attributes that
\* place and turn the sprite (needle_pivot, needle_base_angle) and the
\* smoothed value of the main needle are not modelled.
ImageBasedGauge(bg, needle) ==
    [is_svg_needle |-> needle = "svg",
     needle_pixmap |-> needle = "png",
     needle_center_offset |-> <<Rat(1, 2), Rat(1, 2)>>,
     angle_calculator |-> None,
     gauge_bg_width |-> bg[1],
     gauge_bg_height |-> bg[2],
     gauge_display_scale |-> Int2Rat(1),
     gauge_pivot_px |-> None,
     calibration_points_px |-> <<>>,
     needle_length_px |-> None,
     desired_tip_radius_px |-> None,
     needle_scale |-> Int2Rat(1),
     named_needles |-> <<>>]

\* One entry of needle_calibrations.  A coordinate key that is absent reads
\* as 0 (needle_cal.get(key, 0)) and is modelled as 0; needle_scale and scale
\* are None when the key is absent.
NeedleCal(gauge_pivot_xy, points, needle_pivot_xy, needle_end_xy, needle_scale, scale) ==
    [gauge_pivot_x |-> gauge_pivot_xy[1],
     gauge_pivot_y |-> gauge_pivot_xy[2],
     calibration_points |-> points,
     needle_pivot_x |-> needle_pivot_xy[1],
     needle_pivot_y |-> needle_pivot_xy[2],
     needle_end_x |-> needle_end_xy[1],
     needle_end_y |-> needle_end_xy[2],
     needle_scale |-> needle_scale,
     scale |-> scale]

\* (dx * dx + dy * dy) ** 0.5
Distance(x1, y1, x2, y2) ==
    Sqrt((x2 - x1) * (x2 - x1) + (y2 - y1) * (y2 - y1))

RECURSIVE SumDistances(_, _, _)
SumDistances(pivot_x, pivot_y, points) ==
    IF points = <<>>
    THEN 0
    ELSE Distance(pivot_x, pivot_y, points[1].x, points[1].y)
         + SumDistances(pivot_x, pivot_y, Tail(points))

\* sum(distances) / len(distances)
MeanDistance(pivot_x, pivot_y, points) ==
    Reduce(Rat(SumDistances(pivot_x, pivot_y, points), Len(points)))

\* needle_length_px as load_v2_calibration leaves it (lines 156-188): set
\* from the needle end when a needle image is loaded, None when the end is
\* (0, 0), untouched without a needle image.
LoadedNeedleLength(g, cal) ==
    IF g.is_svg_needle \/ g.needle_pixmap
    THEN IF cal.needle_end_x # 0 \/ cal.needle_end_y # 0
         THEN Px(Distance(cal.needle_pivot_x, cal.needle_pivot_y,
                          cal.needle_end_x, cal.needle_end_y))
         ELSE None
    ELSE g.needle_length_px

\* needle_center_offset as load_v2_calibration leaves it (lines 196-201).
LoadedCenterOffset(g, cal) ==
    IF Truthy(g.gauge_bg_width) /\ Truthy(g.gauge_bg_height)
    THEN <<RatDiv(Int2Rat(cal.gauge_pivot_x), g.gauge_bg_width[1]),
           RatDiv(Int2Rat(cal.gauge_pivot_y), g.gauge_bg_height[1])>>
    ELSE g.needle_center_offset

\* desired_tip_radius_px as load_v2_calibration leaves it (lines 203-213):
\* gauge_pivot_px was set to a pair on line 142 and is true, so the mean is
\* stored when the calibration has points and nothing is stored otherwise.
LoadedTipRadius(g, cal) ==
    IF cal.calibration_points # <<>>
    THEN Some(MeanDistance(cal.gauge_pivot_x, cal.gauge_pivot_y,
                           cal.calibration_points))
    ELSE g.desired_tip_radius_px

\* A persisted point without one of the keys points_from_list reads.
Malformed(p) == ~({"x", "y", "value"} \subseteq DOMAIN p)

\* p['x'], p['y'] or p['value'] raises KeyError at the first such entry.
RaisesKeyError(points) == \E i \in 1..Len(points) : Malformed(points[i])

\* The entries add_point has stored by then: those before that entry.
RECURSIVE BeforeKeyError(_)
BeforeKeyError(points) ==
    IF points = <<>> \/ Malformed(points[1]) THEN <<>>
    ELSE <<points[1]>> \o BeforeKeyError(Tail(points))

\* load_v2_calibration(calibration_data, needle_id): the gauge afterwards
\* and the value returned.  A KeyError of points_from_list is caught on
\* line 231: the calculator assigned on line 136 stays, with the points
\* added so far, nothing else is assigned and False is returned.
load_v2_calibration(g, calibration_data, needle_id) ==
    IF calibration_data = <<>> \/ ~DictHas(calibration_data, needle_id)
    THEN [gauge |-> g, result |-> FALSE]
    ELSE LET cal == DictGet(calibration_data, needle_id)
         IN  IF RaisesKeyError(cal.calibration_points)
             THEN [gauge |->
                     [g EXCEPT
                        !.angle_calculator =
                            Some([gauge_pivot |-> <<cal.gauge_pivot_x, cal.gauge_pivot_y>>,
                                  calibration_points |->
                                      points_from_list(
                                          BeforeKeyError(cal.calibration_points))])],
                   result |-> FALSE]
             ELSE
             [gauge |->
                [g EXCEPT
                   !.angle_calculator =
                       Some([gauge_pivot |-> <<cal.gauge_pivot_x, cal.gauge_pivot_y>>,
                             calibration_points |->
                                 points_from_list(cal.calibration_points)]),
                   !.calibration_points_px = cal.calibration_points,
                   !.gauge_pivot_px = Some(<<cal.gauge_pivot_x, cal.gauge_pivot_y>>),
                   !.needle_length_px = LoadedNeedleLength(g, cal),
                   !.needle_center_offset = LoadedCenterOffset(g, cal),
                   !.desired_tip_radius_px = LoadedTipRadius(g, cal),
                   !.needle_scale = IF cal.needle_scale # None
                                    THEN cal.needle_scale[1]
                                    ELSE g.needle_scale],
              result |-> TRUE]

\* paintEvent, lines 410-444: the displayed size of the background, fitted
\* to a widget of w x h with its aspect ratio kept (scaledToWidth, then
\* scaledToHeight when too tall); the widget itself without a background.
DisplayedSize(g, w, h) ==
    IF g.gauge_bg_width = None
    THEN <<w, h>>
    ELSE LET bg_w == IntOf(g.gauge_bg_width[1])
             bg_h == IntOf(g.gauge_bg_height[1])
             by_width == <<w, (bg_h * w) \div bg_w>>
         IN  IF by_width[2] > h
             THEN <<(bg_w * h) \div bg_h, h>>
             ELSE by_width

\* gauge_display_scale after paintEvent (lines 434-435).
DisplayScale(g, w, h) ==
    IF g.gauge_bg_width # None /\ Truthy(g.gauge_bg_width)
    THEN RatDiv(Int2Rat(DisplayedSize(g, w, h)[1]), g.gauge_bg_width[1])
    ELSE g.gauge_display_scale

\* radius = min(gauge_width, gauge_height) / 2
Min(a, b) == IF a <= b THEN a ELSE b
Radius(g, w, h) == Reduce(Rat(Min(DisplayedSize(g, w, h)[1], DisplayedSize(g, w, h)[2]), 2))

\* The fixed proportions of the radius a needle is drawn at without usable
\* calibration geometry: 1.5 for a pixmap (line 492), 0.9 for an SVG (line 524).
PixmapFallback == Rat(3, 2)
SvgFallback == Rat(9, 10)

\* What a drawn needle is sized by, and the size: "length" with the factor
\* desired_length / needle_length_px the pixmap is scaled by, "height" with
\* the pixel height the pixmap is scaled to, "svg" with the length the SVG
\* is rendered at, "none" when there is no needle image.
Drawn(by, size) == [by |-> by, size |-> size]

\* _draw_svg_needle, lines 512-525: desired_length.
draw_svg_needle(g, radius) ==
    IF /\ Truthy(g.desired_tip_radius_px)
       /\ g.gauge_display_scale.num # 0
       /\ Truthy(g.gauge_bg_width)
       /\ Truthy(g.gauge_bg_height)
       /\ g.desired_tip_radius_px[1].num > 0
    THEN LET calibrated_gauge_radius ==
                 RatDiv(IF RatLe(g.gauge_bg_width[1], g.gauge_bg_height[1])
                        THEN g.gauge_bg_width[1] ELSE g.gauge_bg_height[1],
                        Int2Rat(2))
             needle_percentage_of_radius ==
                 RatDiv(g.desired_tip_radius_px[1], calibrated_gauge_radius)
         IN  Drawn("svg", RatMul(RatMul(radius, needle_percentage_of_radius),
                                 g.needle_scale))
    ELSE Drawn("svg", RatMul(RatMul(radius, SvgFallback), g.needle_scale))

\* The scaling of the pixmap with the test of needle_length_px left out.
ScalePixmap_unguarded(g, radius) ==
    IF Truthy(g.desired_tip_radius_px) /\ g.gauge_display_scale.num # 0
    THEN Drawn("length",
               RatDiv(RatMul(RatMul(g.desired_tip_radius_px[1], g.gauge_display_scale),
                             g.needle_scale),
                      IF g.needle_length_px = None
                      THEN Int2Rat(0) ELSE g.needle_length_px[1]))
    ELSE Drawn("height",
               Int2Rat(IntOf(RatMul(RatMul(radius, PixmapFallback), g.needle_scale))))

\* _rotate_and_draw_needle, lines 478-493: the scaling of the pixmap.
ScalePixmap(g, radius) ==
    IF /\ Truthy(g.needle_length_px)
       /\ Truthy(g.desired_tip_radius_px)
       /\ g.gauge_display_scale.num # 0
    THEN Drawn("length",
               RatDiv(RatMul(RatMul(g.desired_tip_radius_px[1], g.gauge_display_scale),
                             g.needle_scale),
                      g.needle_length_px[1]))
    ELSE Drawn("height",
               Int2Rat(IntOf(RatMul(RatMul(radius, PixmapFallback), g.needle_scale))))

\* _rotate_and_draw_needle(painter, center, angle, radius): how the needle
\* image is sized.
rotate_and_draw_needle(g, radius) ==
    IF g.is_svg_needle
    THEN draw_svg_needle(g, radius)
    ELSE IF ~g.needle_pixmap
         THEN Drawn("none", Int2Rat(0))
         ELSE ScalePixmap(g, radius)

\* The entry of a named needle; angle_calc is None when the key is absent.
NamedNeedle(value, scale, angle_calc) ==
    [value |-> value, scale |-> scale, angle_calc |-> angle_calc]

\* set_named_needle_value storing a fresh entry whether or not one exists.
set_named_needle_value_recreating(named_needles, needle_name, value) ==
    DictSet(named_needles, needle_name, NamedNeedle(value, Int2Rat(1), None))

\* set_named_needle_value(needle_name, value): named_needles afterwards.
set_named_needle_value(named_needles, needle_name, value) ==
    IF ~DictHas(named_needles, needle_name)
    THEN DictSet(named_needles, needle_name, NamedNeedle(value, Int2Rat(1), None))
    ELSE DictSet(named_needles, needle_name,
                 [DictGet(named_needles, needle_name) EXCEPT !.value = value])

\* max(0.5, min(2.0, scale))
ClampScale(scale) ==
    LET capped == IF RatLt(scale, Int2Rat(2)) THEN scale ELSE Int2Rat(2)
    IN  IF RatLt(Rat(1, 2), capped) THEN capped ELSE Rat(1, 2)

\* set_named_needle_scale(needle_name, scale): named_needles afterwards.
set_named_needle_scale(named_needles, needle_name, scale) ==
    IF ~DictHas(named_needles, needle_name)
    THEN DictSet(named_needles, needle_name, NamedNeedle(0, scale, None))
    ELSE DictSet(named_needles, needle_name,
                 [DictGet(named_needles, needle_name) EXCEPT !.scale = ClampScale(scale)])

\* delete_named_needle emptying the registry.
delete_named_needle_all(named_needles, needle_name) ==
    IF DictHas(named_needles, needle_name) THEN <<>> ELSE named_needles

\* delete_named_needle(needle_name): named_needles afterwards.
delete_named_needle(named_needles, needle_name) ==
    IF DictHas(named_needles, needle_name)
    THEN DictDel(named_needles, needle_name)
    ELSE named_needles

\* get_needle_names()
get_needle_names(named_needles) == DictKeys(named_needles)

\* The loop of load_all_needles_from_file over the needles other than the
\* main one (lines 273-293).  For a needle with two points or more line 281
\* calls AngleCalculator() without the two arguments its constructor
\* requires (angle_calculator.py line 53): the TypeError leaves the loop
\* before the entry is stored and the method returns False.  A needle with
\* fewer points is skipped.
RECURSIVE LoadNamedNeedles(_, _, _)
LoadNamedNeedles(g, items, main_needle_id) ==
    IF items = <<>>
    THEN [gauge |-> g, result |-> TRUE]
    ELSE IF /\ items[1][1] # main_needle_id
            /\ Len(items[1][2].calibration_points) >= 2
         THEN [gauge |-> g, result |-> FALSE]
         ELSE LoadNamedNeedles(g, Tail(items), main_needle_id)

\* load_all_needles_from_file(config_path, main_needle_id), given the
\* needle_calibrations of the file.
load_all_needles_from_file(g, needle_calibrations, main_needle_id) ==
    LoadNamedNeedles(
        IF DictHas(needle_calibrations, main_needle_id)
        THEN load_v2_calibration(g, needle_calibrations, main_needle_id).gauge
        ELSE g,
        needle_calibrations, main_needle_id)

\* The angle of a named needle with the end of the value range left out.
NamedNeedleAngle_exclusive(needle_data) ==
    IF needle_data.value > 0 /\ needle_data.value < 100
    THEN RatSub(Int2Rat(270), RatMul(Int2Rat(HalfTurn), Rat(needle_data.value, 100)))
    ELSE Int2Rat(270)

\* The angle a named needle is drawn at (lines 457-459).
NamedNeedleAngle(needle_data) ==
    LET angle_fraction == IF needle_data.value > 0
                          THEN Reduce(Rat(needle_data.value - 0, 100 - 0))
                          ELSE Int2Rat(0)
    IN  RatSub(Int2Rat(270), RatMul(Int2Rat(HalfTurn), angle_fraction))

\* _draw_all_named_needles(painter, center, radius): for every named needle
\* in turn its name, the angle it is drawn at and how its image is sized
\* (needle_scale holds the needle's own scale while it is drawn and its old
\* value afterwards).
draw_all_named_needles(g, radius) ==
    [i \in 1..Len(g.named_needles) |->
        LET needle_data == g.named_needles[i][2]
        IN  [name |-> g.named_needles[i][1],
             angle |-> NamedNeedleAngle(needle_data),
             drawn |-> rotate_and_draw_needle(
                           [g EXCEPT !.needle_scale = needle_data.scale], radius)]]

-----------------------------------------------------------------------------
(* The calls on a gauge *)

\* The size of the background image: none loaded, a square, a wide one.
Backgrounds == {<<None, None>>, <<Px(512), Px(512)>>, <<Px(1024), Px(512)>>}

\* The needle image that loaded.
NeedleImages == {"svg", "png", "none"}

\* The widget sizes a gauge is painted at.
WidgetSizes == {<<400, 400>>, <<800, 600>>}

\* Gauge pivot and calibration points of a calibration: no point, two and
\* three points at distances 156, 154 and 154 of the pivot, and one point at
\* distance 100 of another pivot.
GaugeGeometries ==
    {<<<<256, 256>>, <<>>>>,
     <<<<256, 256>>, <<CalibrationPoint(256, 100, 0), CalibrationPoint(410, 256, 1)>>>>,
     <<<<256, 256>>, <<CalibrationPoint(256, 100, 0), CalibrationPoint(410, 256, 1),
                       CalibrationPoint(256, 410, MaxValue)>>>>,
     <<<<256, 200>>, <<CalibrationPoint(256, 100, 0)>>>>}

\* Needle pivot and needle end on the needle image: a needle of 100 pixels,
\* an end clicked on the pivot, and neither set.
NeedleGeometries ==
    {<<<<10, 100>>, <<10, 0>>>>, <<<<10, 100>>, <<10, 100>>>>, <<<<0, 0>>, <<0, 0>>>>}

\* The needle_scale of an entry: absent, or a half.
NeedleScales == {None, Some(Rat(1, 2))}

\* The needle_calibrations passed to load_v2_calibration: none, or the
\* calibration of the needle "main".
CalibrationData ==
    {<<>>} \cup
    {<<<<"main", NeedleCal(gg[1], gg[2], ng[1], ng[2], ns, None)>>>> :
        gg \in GaugeGeometries, ng \in NeedleGeometries, ns \in NeedleScales}

InitGauge ==
    /\ self = "ImageBasedGauge"
    /\ gauge_pivot \in Pivots
    /\ calibration_points = <<>>
    /\ needle_points = <<>>
    /\ session = None
    /\ config = None
    /\ \E bg \in Backgrounds, needle \in NeedleImages :
          gauge = ImageBasedGauge(bg, needle)
    /\ ret = Ret("init", <<>>, Int2Rat(0))

LoadV2Calibration ==
    \E calibration_data \in CalibrationData, needle_id \in {"main", "fuel"} :
        LET loaded == load_v2_calibration(gauge, calibration_data, needle_id)
        IN  /\ self = "ImageBasedGauge"
            /\ gauge' = loaded.gauge
            /\ ret' = Ret("load_v2_calibration", <<needle_id>>, loaded.result)
            /\ UNCHANGED <<self, gauge_pivot, calibration_points, needle_points, session, config>>

\* paintEvent of a gauge whose _draw_needle draws the main needle and then
\* the named ones (ImageTachometer, ImageSpeedometer: lines 568-582, 597-611).
PaintEvent ==
    \E size \in WidgetSizes :
        LET radius == Radius(gauge, size[1], size[2])
            painted == [gauge EXCEPT
                           !.gauge_display_scale = DisplayScale(gauge, size[1], size[2])]
        IN  /\ self = "ImageBasedGauge"
            /\ gauge' = painted
            /\ ret' = Ret("paintEvent", size,
                          [radius |-> radius,
                           main |-> rotate_and_draw_needle(painted, radius),
                           named |-> draw_all_named_needles(painted, radius)])
            /\ UNCHANGED <<self, gauge_pivot, calibration_points, needle_points, session, config>>

NextGauge ==
    \/ LoadV2Calibration
    \/ PaintEvent

SpecGauge == InitGauge /\ [][NextGauge]_vars

\* The names, values and scales given to the named needles of a gauge.
NeedleNames == {"aux", "boost"}
NeedleValues == {0, 50, 100}
Scales == {Rat(1, 4), Int2Rat(1), Int2Rat(5)}

\* The calibrations of a config file: of the main needle, of a needle "aux"
\* with two points (values 0 and 100, bearings 270 and 0) and a scale, and of
\* a needle "boost" with one point.
MainCal ==
    NeedleCal(<<256, 256>>,
              <<CalibrationPoint(256, 100, 0), CalibrationPoint(410, 256, 1)>>,
              <<10, 100>>, <<10, 0>>, None, None)
AuxCal ==
    NeedleCal(<<256, 256>>,
              <<CalibrationPoint(256, 100, 0), CalibrationPoint(410, 256, 100)>>,
              <<10, 100>>, <<10, 0>>, None, Some(Int2Rat(5)))
BoostCal ==
    NeedleCal(<<256, 256>>, <<CalibrationPoint(256, 100, 0)>>,
              <<10, 100>>, <<10, 0>>, None, None)

\* The needle_calibrations of the config files a gauge is set up from.
ConfigFiles ==
    {<<<<"main", MainCal>>, <<"boost", BoostCal>>>>,
     <<<<"main", MainCal>>, <<"boost", BoostCal>>, <<"aux", AuxCal>>>>}

InitRegistry ==
    /\ self = "ImageBasedGauge"
    /\ gauge_pivot \in Pivots
    /\ calibration_points = <<>>
    /\ needle_points = <<>>
    /\ session = None
    /\ config \in ConfigFiles
    /\ gauge = ImageBasedGauge(<<Px(512), Px(512)>>, "png")
    /\ ret = Ret("init", <<>>, Int2Rat(0))

LoadAllNeedlesFromFile ==
    LET loaded == load_all_needles_from_file(gauge, config, "main")
    IN  /\ self = "ImageBasedGauge"
        /\ gauge' = loaded.gauge
        /\ ret' = Ret("load_all_needles_from_file", <<"main">>, loaded.result)
        /\ UNCHANGED <<self, gauge_pivot, calibration_points, needle_points, session, config>>

GetNeedleNames ==
    /\ self = "ImageBasedGauge"
    /\ ret' = Ret("get_needle_names", <<>>, get_needle_names(gauge.named_needles))
    /\ UNCHANGED <<self, gauge_pivot, calibration_points, needle_points, gauge, session, config>>

SetNamedNeedleValue ==
    \E needle_name \in NeedleNames, value \in NeedleValues :
        /\ self = "ImageBasedGauge"
        /\ gauge' = [gauge EXCEPT !.named_needles =
                        set_named_needle_value(gauge.named_needles, needle_name, value)]
        /\ ret' = Ret("set_named_needle_value", <<needle_name, value>>, None)
        /\ UNCHANGED <<self, gauge_pivot, calibration_points, needle_points, session, config>>

SetNamedNeedleScale ==
    \E needle_name \in NeedleNames, scale \in Scales :
        /\ self = "ImageBasedGauge"
        /\ gauge' = [gauge EXCEPT !.named_needles =
                        set_named_needle_scale(gauge.named_needles, needle_name, scale)]
        /\ ret' = Ret("set_named_needle_scale", <<needle_name, scale>>, None)
        /\ UNCHANGED <<self, gauge_pivot, calibration_points, needle_points, session, config>>

DeleteNamedNeedle ==
    \E needle_name \in NeedleNames :
        /\ self = "ImageBasedGauge"
        /\ gauge' = [gauge EXCEPT !.named_needles =
                        delete_named_needle(gauge.named_needles, needle_name)]
        /\ ret' = Ret("delete_named_needle", <<needle_name>>, None)
        /\ UNCHANGED <<self, gauge_pivot, calibration_points, needle_points, session, config>>

NextRegistry ==
    \/ LoadAllNeedlesFromFile
    \/ GetNeedleNames
    \/ SetNamedNeedleValue
    \/ SetNamedNeedleScale
    \/ DeleteNamedNeedle
    \/ PaintEvent

SpecRegistry == InitRegistry /\ [][NextRegistry]_vars

-----------------------------------------------------------------------------
(* Properties of a loaded calibration *)

GaugeLoaded == self = "ImageBasedGauge" /\ gauge.angle_calculator # None

\* C11: after any sequence of load_v2_calibration calls the stored tip radius
\* comes from the calibration loaded last: it is the mean of the distances
\* from that calibration's gauge pivot to its points, and nothing is stored
\* when that calibration has no points.
C11_TipRadiusOfCurrentCalibration ==
    GaugeLoaded =>
        IF gauge.calibration_points_px = <<>>
        THEN gauge.desired_tip_radius_px = None
        ELSE gauge.desired_tip_radius_px =
                 Some(MeanDistance(gauge.gauge_pivot_px[1][1], gauge.gauge_pivot_px[1][2],
                                   gauge.calibration_points_px))

-----------------------------------------------------------------------------
(* Properties of degenerate geometry *)

\* The last call painted the gauge; MainDrawn is how the main needle was sized.
Painted == self = "ImageBasedGauge" /\ ret.op = "paintEvent"
MainDrawn == ret.angle.main
HasNeedleImage == gauge.is_svg_needle \/ gauge.needle_pixmap
BackgroundSized == Truthy(gauge.gauge_bg_width) /\ Truthy(gauge.gauge_bg_height)
Centre == <<Rat(1, 2), Rat(1, 2)>>

\* The length an SVG needle is rendered at from the tip radius: the share the
\* tip radius has of the calibration background's radius, of the live radius.
TipShareOfRadius(radius) ==
    LET bg_min == IF RatLe(gauge.gauge_bg_width[1], gauge.gauge_bg_height[1])
                  THEN gauge.gauge_bg_width[1] ELSE gauge.gauge_bg_height[1]
    IN  RatMul(RatMul(radius, RatDiv(RatMul(Int2Rat(2), gauge.desired_tip_radius_px[1]),
                                     bg_min)),
               gauge.needle_scale)

-----------------------------------------------------------------------------
(* Properties of the registry of named needles *)

Named == gauge.named_needles
ScaleInRange(scale) == RatLe(Rat(1, 2), scale) /\ RatLe(scale, Int2Rat(2))

\* The scale s brought into [0.5, 2.0].
Clamped(s) ==
    IF RatLt(s, Rat(1, 2)) THEN Rat(1, 2)
    ELSE IF RatLt(Int2Rat(2), s) THEN Int2Rat(2) ELSE s

\* C13: after set_named_needle_scale(id, s) the stored scale of needle id is
\* s clamped to [0.5, 2.0], whether or not the needle existed, and the scale
\* of every named needle lies in [0.5, 2.0].
C13_ScaleClamped ==
    self = "ImageBasedGauge" =>
        /\ ret.op = "set_named_needle_scale" =>
              /\ DictHas(Named, ret.args[1])
              /\ RatEq(DictGet(Named, ret.args[1]).scale, Clamped(ret.args[2]))
        /\ \A i \in 1..Len(Named) : ScaleInRange(Named[i][2].scale)

\* C14: set_named_needle_value(id, v) creates needle id with value v and
\* scale 1.0 when it is absent, and when it is present sets its value to v
\* and leaves its scale and its calibration as they were.
C14_Step ==
    (self = "ImageBasedGauge" /\ ret'.op = "set_named_needle_value") =>
        LET name == ret'.args[1]
            new == gauge'.named_needles
        IN  /\ DictHas(new, name)
            /\ DictGet(new, name).value = ret'.args[2]
            /\ IF DictHas(Named, name)
               THEN /\ DictGet(new, name).scale = DictGet(Named, name).scale
                    /\ DictGet(new, name).angle_calc = DictGet(Named, name).angle_calc
               ELSE /\ RatEq(DictGet(new, name).scale, Int2Rat(1))
                    /\ DictGet(new, name).angle_calc = None

C14_SetValueKeepsScale == [][C14_Step]_vars

\* set_named_needle_value("aux", 50) was applied to a needle whose scale
\* had been set to 2: the value is 50 and the scale still 2.
C14_Witness ==
    /\ self = "ImageBasedGauge"
    /\ ret.op = "set_named_needle_value"
    /\ ret.args = <<"aux", 50>>
    /\ DictHas(Named, "aux")
    /\ DictGet(Named, "aux") = NamedNeedle(50, Int2Rat(2), None)

\* C15: set_named_needle_value, set_named_needle_scale and
\* delete_named_needle applied to needle id leave the entry of every other
\* needle and the scale of the main needle as they were; after
\* delete_named_needle(id) the id is not among get_needle_names(), and
\* deleting an absent id changes nothing.
C15_Step ==
    (/\ self = "ImageBasedGauge"
     /\ ret'.op \in {"set_named_needle_value", "set_named_needle_scale",
                     "delete_named_needle"}) =>
        LET name == ret'.args[1]
            new == gauge'.named_needles
        IN  /\ \A other \in NeedleNames \ {name} :
                  /\ DictHas(new, other) <=> DictHas(Named, other)
                  /\ DictHas(Named, other) =>
                        DictGet(new, other) = DictGet(Named, other)
            /\ gauge'.needle_scale = gauge.needle_scale
            /\ ret'.op = "delete_named_needle" =>
                  /\ \A i \in 1..Len(get_needle_names(new)) :
                        get_needle_names(new)[i] # name
                  /\ ~DictHas(Named, name) => gauge' = gauge

C15_NeedlesIndependent == [][C15_Step]_vars

\* delete_named_needle("aux") was applied: "aux" is gone and "boost" has the
\* value and the scale it was given.
C15_Witness ==
    /\ self = "ImageBasedGauge"
    /\ ret.op = "delete_named_needle"
    /\ ret.args = <<"aux">>
    /\ ~DictHas(Named, "aux")
    /\ DictHas(Named, "boost")
    /\ DictGet(Named, "boost") = NamedNeedle(50, Int2Rat(2), None)

\* The named needles as the last paintEvent drew them.
NamedDrawn == ret.angle.named

\* C16: a named needle without a calibration whose value lies in [0, 100] is
\* drawn at 270 - 180 * (value / 100): at 270 for 0, 180 for 50, 90 for 100.
C16_FallbackAngle ==
    Painted =>
        /\ Len(NamedDrawn) = Len(Named)
        /\ \A i \in 1..Len(NamedDrawn) :
              LET needle == Named[i][2]
              IN  /\ NamedDrawn[i].name = Named[i][1]
                  /\ (/\ needle.angle_calc = None
                      /\ needle.value >= 0
                      /\ needle.value <= 100) =>
                        /\ RatEq(NamedDrawn[i].angle,
                                 Rat(270 * 100 - 180 * needle.value, 100))
                        /\ needle.value = 0 => NamedDrawn[i].angle = Int2Rat(270)
                        /\ needle.value = 50 => NamedDrawn[i].angle = Int2Rat(180)
                        /\ needle.value = 100 => NamedDrawn[i].angle = Int2Rat(90)

\* Two needles without calibration painted: "aux" with value 50 at 180 and
\* "boost" with value 100 at 90.
C16_Witness ==
    /\ Painted
    /\ Len(Named) = 2
    /\ Named[1] = <<"aux", NamedNeedle(50, Int2Rat(1), None)>>
    /\ Named[2][1] = "boost"
    /\ Named[2][2].value = 100
    /\ NamedDrawn[1].angle = Int2Rat(180)
    /\ NamedDrawn[2].angle = Int2Rat(90)

\* The calibration the config file holds for a named needle, if it has the
\* two points a calibration needs.
Calibrated(name) ==
    /\ name # "main"
    /\ DictHas(config, name)
    /\ Len(DictGet(config, name).calibration_points) >= 2

\* The angle the needle's own calibration resolves for a value.
CalibratedAngle(name, value) ==
    LET cal == DictGet(config, name)
    IN  value_to_angle(<<cal.gauge_pivot_x, cal.gauge_pivot_y>>,
                       points_from_list(cal.calibration_points), value)

\* C17: the linear fallback is for needles without calibration only: once
\* the config file is loaded, a named needle whose calibration has points is
\* drawn at the angle that calibration resolves for the needle's value.
C17_CalibratedNeedleByCalibration ==
    (Painted /\ GaugeLoaded) =>
        \A i \in 1..Len(NamedDrawn) :
            Calibrated(NamedDrawn[i].name) =>
                RatEq(NamedDrawn[i].angle,
                      CalibratedAngle(NamedDrawn[i].name, Named[i][2].value))

-----------------------------------------------------------------------------
(* gauge_calibrator_v2.py: the calibration session of GaugeCalibratorV2 *)

\* The dataclass NeedleCalibration, with the defaults of its fields.
NeedleCalibration(needle_id, needle_image_path, gauge_name, min_value, max_value) ==
    [needle_id |-> needle_id,
     needle_image_path |-> needle_image_path,
     gauge_name |-> gauge_name,
     needle_pivot_x |-> 0, needle_pivot_y |-> 0,
     needle_end_x |-> 0, needle_end_y |-> 0,
     gauge_pivot_x |-> 0, gauge_pivot_y |-> 0,
     calibration_points |-> <<>>,
     min_value |-> min_value,
     max_value |-> max_value]

\* The attributes of the tool once on_gauge_changed and on_needle_changed
\* have run for a gauge without a saved configuration: a calibration of
\* defaults, the needle pivot awaited, no click position recorded, and the
\* gauge image on screen.
GaugeCalibratorV2(gauge_name, needle_id, min_value, max_value) ==
    [current_calibration |->
         NeedleCalibration(needle_id, "", gauge_name, min_value, max_value),
     waiting_for_needle_pivot |-> TRUE,
     waiting_for_needle_end |-> FALSE,
     last_click_x |-> None,
     last_click_y |-> None,
     click_callback |-> "on_gauge_click"]

\* load_needle_image: the needle image is shown and receives the clicks.
load_needle_image(s, needle_path) ==
    [s EXCEPT !.current_calibration.needle_image_path = needle_path,
              !.click_callback = "on_needle_pivot_click"]

\* load_gauge_image: the gauge image is shown and receives the clicks.
load_gauge_image(s) == [s EXCEPT !.click_callback = "on_gauge_click"]

\* Mutant: selecting the needle end keeps the pivot awaited as well.
on_point_type_changed_keeping_pivot(s, index) ==
    IF index = 0
    THEN [s EXCEPT !.waiting_for_needle_pivot = TRUE,
                   !.waiting_for_needle_end = FALSE]
    ELSE IF index = 1
    THEN [s EXCEPT !.waiting_for_needle_end = TRUE]
    ELSE s

\* on_point_type_changed: the point type selector names the needle point
\* the next needle click is for; the other two entries change nothing.
on_point_type_changed(s, index) ==
    IF index = 0
    THEN [s EXCEPT !.waiting_for_needle_pivot = TRUE,
                   !.waiting_for_needle_end = FALSE]
    ELSE IF index = 1
    THEN [s EXCEPT !.waiting_for_needle_pivot = FALSE,
                   !.waiting_for_needle_end = TRUE]
    ELSE s

\* Mutant: the click for the pivot also moves the end to the same place.
on_needle_pivot_click_moving_end(s, x, y) ==
    IF s.waiting_for_needle_pivot
    THEN [s EXCEPT !.current_calibration.needle_pivot_x = x,
                   !.current_calibration.needle_pivot_y = y,
                   !.current_calibration.needle_end_x = x,
                   !.current_calibration.needle_end_y = y,
                   !.waiting_for_needle_pivot = FALSE,
                   !.waiting_for_needle_end = TRUE]
    ELSE IF s.waiting_for_needle_end
    THEN [s EXCEPT !.current_calibration.needle_end_x = x,
                   !.current_calibration.needle_end_y = y,
                   !.waiting_for_needle_end = FALSE]
    ELSE s

\* on_needle_pivot_click: the first click is the pivot, the second the end.
on_needle_pivot_click(s, x, y) ==
    IF s.waiting_for_needle_pivot
    THEN [s EXCEPT !.current_calibration.needle_pivot_x = x,
                   !.current_calibration.needle_pivot_y = y,
                   !.waiting_for_needle_pivot = FALSE,
                   !.waiting_for_needle_end = TRUE]
    ELSE IF s.waiting_for_needle_end
    THEN [s EXCEPT !.current_calibration.needle_end_x = x,
                   !.current_calibration.needle_end_y = y,
                   !.waiting_for_needle_end = FALSE]
    ELSE s

\* on_gauge_click: `not gauge_pivot_x` is true of a pivot whose x is 0.
on_gauge_click(s, x, y) ==
    IF s.current_calibration.gauge_pivot_x = 0
    THEN [s EXCEPT !.current_calibration.gauge_pivot_x = x,
                   !.current_calibration.gauge_pivot_y = y]
    ELSE [s EXCEPT !.last_click_x = Some(x), !.last_click_y = Some(y)]

\* add_calibration_point: nothing without a recorded click (hasattr).
add_calibration_point(s, value) ==
    IF s.last_click_x = None THEN s
    ELSE [s EXCEPT !.current_calibration.calibration_points =
                       Append(@, CalibrationPoint(s.last_click_x[1],
                                                  s.last_click_y[1], value))]

\* Mutant: the point removed is the first of the list.
delete_last_calibration_point_first(s) ==
    IF s.current_calibration.calibration_points = <<>> THEN s
    ELSE [s EXCEPT !.current_calibration.calibration_points = Tail(@)]

\* delete_last_calibration_point: list.pop(), nothing on an empty list.
delete_last_calibration_point(s) ==
    IF s.current_calibration.calibration_points = <<>> THEN s
    ELSE [s EXCEPT !.current_calibration.calibration_points =
                       SubSeq(@, 1, Len(@) - 1)]

\* clear_all_calibration_points, answered with reply.
clear_all_calibration_points(s, reply) ==
    IF s.current_calibration.calibration_points = <<>> \/ reply # "Yes" THEN s
    ELSE [s EXCEPT !.current_calibration.calibration_points = <<>>]

\* reset_needle_geometry, answered with reply.
reset_needle_geometry(s, reply) ==
    IF reply # "Yes" THEN s
    ELSE [s EXCEPT !.current_calibration.needle_pivot_x = 0,
                   !.current_calibration.needle_pivot_y = 0,
                   !.current_calibration.needle_end_x = 0,
                   !.current_calibration.needle_end_y = 0,
                   !.waiting_for_needle_pivot = TRUE,
                   !.waiting_for_needle_end = FALSE]

\* reset_gauge_pivot, answered with reply.
reset_gauge_pivot(s, reply) ==
    IF reply # "Yes" THEN s
    ELSE [s EXCEPT !.current_calibration.gauge_pivot_x = 0,
                   !.current_calibration.gauge_pivot_y = 0]

\* reset_current_gauge, answered with reply: the fields of the calibration
\* are cleared; the method assigns nothing else.
reset_current_gauge(s, reply) ==
    IF reply # "Yes" THEN s
    ELSE [s EXCEPT !.current_calibration.calibration_points = <<>>,
                   !.current_calibration.needle_pivot_x = 0,
                   !.current_calibration.needle_pivot_y = 0,
                   !.current_calibration.needle_end_x = 0,
                   !.current_calibration.needle_end_y = 0,
                   !.current_calibration.gauge_pivot_x = 0,
                   !.current_calibration.gauge_pivot_y = 0]

-----------------------------------------------------------------------------
(* The events of a calibration session *)

\* At most this many calibration points are added in a session.
MaxSessionPoints == 2

\* The image positions a click is reported at: mousePressEvent clamps them
\* to whole pixels of the image, the left column included.
ImageClicks == {<<0, 120>>, <<256, 256>>}

\* The values the spin box holds when Add Point is pressed.
PointValues == {0, 100}

\* The answers to a confirmation dialog.
Replies == {"Yes", "No"}

\* The entries of the point type selector.
PointTypes == 0..3

InitSession ==
    /\ self = "GaugeCalibratorV2"
    /\ gauge_pivot \in Pivots
    /\ calibration_points = <<>>
    /\ needle_points = <<>>
    /\ gauge = None
    /\ config = None
    /\ session = GaugeCalibratorV2("tachometer", "main", 0, 100)
    /\ ret = Ret("on_gauge_changed", <<"Tachometer">>, None)

LoadNeedleImage ==
    /\ self = "GaugeCalibratorV2"
    /\ session' = load_needle_image(session, "gauges/needle.svg")
    /\ ret' = Ret("load_needle_image", <<>>, None)
    /\ UNCHANGED <<self, gauge_pivot, calibration_points, needle_points, gauge, config>>

LoadGaugeImage ==
    /\ self = "GaugeCalibratorV2"
    /\ session' = load_gauge_image(session)
    /\ ret' = Ret("load_gauge_image", <<>>, None)
    /\ UNCHANGED <<self, gauge_pivot, calibration_points, needle_points, gauge, config>>

OnPointTypeChanged ==
    \E index \in PointTypes :
        /\ self = "GaugeCalibratorV2"
        /\ session' = on_point_type_changed(session, index)
        /\ ret' = Ret("on_point_type_changed", <<index>>, None)
        /\ UNCHANGED <<self, gauge_pivot, calibration_points, needle_points, gauge, config>>

\* mousePressEvent on the needle image.
OnNeedlePivotClick ==
    \E click \in ImageClicks :
        /\ self = "GaugeCalibratorV2"
        /\ session.click_callback = "on_needle_pivot_click"
        /\ session' = on_needle_pivot_click(session, click[1], click[2])
        /\ ret' = Ret("on_needle_pivot_click", click, None)
        /\ UNCHANGED <<self, gauge_pivot, calibration_points, needle_points, gauge, config>>

\* mousePressEvent on the gauge image.
OnGaugeClick ==
    \E click \in ImageClicks :
        /\ self = "GaugeCalibratorV2"
        /\ session.click_callback = "on_gauge_click"
        /\ session' = on_gauge_click(session, click[1], click[2])
        /\ ret' = Ret("on_gauge_click", click, None)
        /\ UNCHANGED <<self, gauge_pivot, calibration_points, needle_points, gauge, config>>

AddCalibrationPoint ==
    \E value \in PointValues :
        /\ self = "GaugeCalibratorV2"
        /\ Len(session.current_calibration.calibration_points) < MaxSessionPoints
        /\ session' = add_calibration_point(session, value)
        /\ ret' = Ret("add_calibration_point", <<value>>, None)
        /\ UNCHANGED <<self, gauge_pivot, calibration_points, needle_points, gauge, config>>

DeleteLastCalibrationPoint ==
    /\ self = "GaugeCalibratorV2"
    /\ session' = delete_last_calibration_point(session)
    /\ ret' = Ret("delete_last_calibration_point", <<>>, None)
    /\ UNCHANGED <<self, gauge_pivot, calibration_points, needle_points, gauge, config>>

ClearAllCalibrationPoints ==
    \E reply \in Replies :
        /\ self = "GaugeCalibratorV2"
        /\ session' = clear_all_calibration_points(session, reply)
        /\ ret' = Ret("clear_all_calibration_points", <<reply>>, None)
        /\ UNCHANGED <<self, gauge_pivot, calibration_points, needle_points, gauge, config>>

ResetNeedleGeometry ==
    \E reply \in Replies :
        /\ self = "GaugeCalibratorV2"
        /\ session' = reset_needle_geometry(session, reply)
        /\ ret' = Ret("reset_needle_geometry", <<reply>>, None)
        /\ UNCHANGED <<self, gauge_pivot, calibration_points, needle_points, gauge, config>>

ResetGaugePivot ==
    \E reply \in Replies :
        /\ self = "GaugeCalibratorV2"
        /\ session' = reset_gauge_pivot(session, reply)
        /\ ret' = Ret("reset_gauge_pivot", <<reply>>, None)
        /\ UNCHANGED <<self, gauge_pivot, calibration_points, needle_points, gauge, config>>

ResetCurrentGauge ==
    \E reply \in Replies :
        /\ self = "GaugeCalibratorV2"
        /\ session' = reset_current_gauge(session, reply)
        /\ ret' = Ret("reset_current_gauge", <<reply>>, None)
        /\ UNCHANGED <<self, gauge_pivot, calibration_points, needle_points, gauge, config>>

NextSession ==
    \/ LoadNeedleImage
    \/ LoadGaugeImage
    \/ OnPointTypeChanged
    \/ OnNeedlePivotClick
    \/ OnGaugeClick
    \/ AddCalibrationPoint
    \/ DeleteLastCalibrationPoint
    \/ ClearAllCalibrationPoints
    \/ ResetNeedleGeometry
    \/ ResetGaugePivot
    \/ ResetCurrentGauge

SpecSession == InitSession /\ [][NextSession]_vars

-----------------------------------------------------------------------------
(* C18: a click advances one pending field *)

\* The fields of the calibration a click may set.
NeedlePivotOf(s) == <<s.current_calibration.needle_pivot_x, s.current_calibration.needle_pivot_y>>
NeedleEndOf(s) == <<s.current_calibration.needle_end_x, s.current_calibration.needle_end_y>>
GaugePivotOf(s) == <<s.current_calibration.gauge_pivot_x, s.current_calibration.gauge_pivot_y>>
PointsOf(s) == s.current_calibration.calibration_points
LastClickOf(s) == <<s.last_click_x, s.last_click_y>>
WaitingOf(s) == <<s.waiting_for_needle_pivot, s.waiting_for_needle_end>>

\* The gauge pivot is pending while on_gauge_click would set it.
GaugePivotPending(s) == s.current_calibration.gauge_pivot_x = 0

\* s and t agree on the calibration except for the fields named.
SameExcept(s, t, fields) ==
    \A f \in DOMAIN s.current_calibration \ fields :
        s.current_calibration[f] = t.current_calibration[f]

C18_Step ==
    /\ ret'.op = "on_needle_pivot_click" =>
         /\ LastClickOf(session') = LastClickOf(session)
         /\ session.waiting_for_needle_pivot =>
              /\ NeedlePivotOf(session') = ret'.args
              /\ SameExcept(session, session', {"needle_pivot_x", "needle_pivot_y"})
              /\ WaitingOf(session') = <<FALSE, TRUE>>
         /\ (~session.waiting_for_needle_pivot /\ session.waiting_for_needle_end) =>
              /\ NeedleEndOf(session') = ret'.args
              /\ SameExcept(session, session', {"needle_end_x", "needle_end_y"})
              /\ WaitingOf(session') = <<FALSE, FALSE>>
         /\ WaitingOf(session) = <<FALSE, FALSE>> => session' = session
    /\ ret'.op = "on_gauge_click" =>
         /\ WaitingOf(session') = WaitingOf(session)
         /\ GaugePivotPending(session) =>
              /\ GaugePivotOf(session') = ret'.args
              /\ SameExcept(session, session', {"gauge_pivot_x", "gauge_pivot_y"})
              /\ LastClickOf(session') = LastClickOf(session)
         /\ ~GaugePivotPending(session) =>
              /\ LastClickOf(session') = <<Some(ret'.args[1]), Some(ret'.args[2])>>
              /\ SameExcept(session, session', {})

-----------------------------------------------------------------------------
(* C19: a reset returns to the pending state *)

\* The last call was the reset named, and it was confirmed.
Confirmed(op) == self = "GaugeCalibratorV2" /\ ret.op = op /\ ret.args = <<"Yes">>

\* The next click on the needle image sets the needle pivot.
NextNeedleClickSetsPivot ==
    \A click \in ImageClicks :
        NeedlePivotOf(on_needle_pivot_click(session, click[1], click[2])) = click

\* The next click on the gauge image sets the gauge pivot.
NextGaugeClickSetsPivot ==
    \A click \in ImageClicks :
        GaugePivotOf(on_gauge_click(session, click[1], click[2])) = click

\* C19: every confirmed reset returns the session to the pending state it
\* names: reset_needle_geometry clears the needle pivot and end and the next
\* needle click sets the pivot; reset_gauge_pivot clears the gauge pivot and
\* the next gauge click sets it; reset_current_gauge clears the pivot, the
\* end, the gauge pivot and the points, and the next needle click sets the
\* needle pivot and the next gauge click the gauge pivot.
C19_ResetReturnsToPending ==
    /\ Confirmed("reset_needle_geometry") =>
         /\ NeedlePivotOf(session) = <<0, 0>>
         /\ NeedleEndOf(session) = <<0, 0>>
         /\ NextNeedleClickSetsPivot
    /\ Confirmed("reset_gauge_pivot") =>
         /\ GaugePivotOf(session) = <<0, 0>>
         /\ NextGaugeClickSetsPivot
    /\ Confirmed("reset_current_gauge") =>
         /\ NeedlePivotOf(session) = <<0, 0>>
         /\ NeedleEndOf(session) = <<0, 0>>
         /\ GaugePivotOf(session) = <<0, 0>>
         /\ PointsOf(session) = <<>>
         /\ NextNeedleClickSetsPivot
         /\ NextGaugeClickSetsPivot

-----------------------------------------------------------------------------
(* gauge_calibrator_v2.py, gauge_config.py: a calibration and its persisted
   entry.  A dict is the sequence of its <<key, value>> pairs. *)

\* CalibrationPoint.to_dict, PositionCalibrationPoint.to_dict
point_to_dict(p) == <<<<"x", p.x>>, <<"y", p.y>>, <<"value", p.value>>>>

\* CalibrationPoint.from_dict, PositionCalibrationPoint.from_dict: cls(**data)
\* raises TypeError (None here) unless the keys are those of the fields.
point_from_dict(data) ==
    IF Len(data) = 3 /\ \A k \in {"x", "y", "value"} : DictHas(data, k)
    THEN Some(CalibrationPoint(DictGet(data, "x"), DictGet(data, "y"),
                               DictGet(data, "value")))
    ELSE None

\* NeedleCalibration.to_dict, PositionBasedNeedleCalibration.to_dict: the
\* twelve fields of the dataclass, and nothing else.
to_dict(cal) ==
    <<<<"needle_id", cal.needle_id>>,
      <<"needle_image_path", cal.needle_image_path>>,
      <<"gauge_name", cal.gauge_name>>,
      <<"needle_pivot_x", cal.needle_pivot_x>>,
      <<"needle_pivot_y", cal.needle_pivot_y>>,
      <<"needle_end_x", cal.needle_end_x>>,
      <<"needle_end_y", cal.needle_end_y>>,
      <<"gauge_pivot_x", cal.gauge_pivot_x>>,
      <<"gauge_pivot_y", cal.gauge_pivot_y>>,
      <<"calibration_points",
        [i \in 1..Len(cal.calibration_points) |->
            point_to_dict(cal.calibration_points[i])]>>,
      <<"min_value", cal.min_value>>,
      <<"max_value", cal.max_value>>>>

\* The keyword arguments the dataclasses accept.
valid_fields ==
    {"needle_id", "needle_image_path", "gauge_name",
     "needle_pivot_x", "needle_pivot_y", "needle_end_x", "needle_end_y",
     "gauge_pivot_x", "gauge_pivot_y", "min_value", "max_value"}

\* The fields of NeedleCalibration without a default; every field of
\* PositionBasedNeedleCalibration has one.
RequiredFields(cls) ==
    IF cls = "NeedleCalibration"
    THEN {"needle_id", "needle_image_path", "gauge_name"}
    ELSE {}

\* The default of a field of the dataclass cls.
FieldDefault(cls, f) ==
    IF f = "needle_id" THEN "main"
    ELSE IF f \in {"needle_image_path", "gauge_name"} THEN None
    ELSE IF f = "max_value" THEN 100
    ELSE 0

\* data.pop("calibration_points", [])
PoppedPoints(data) ==
    IF DictHas(data, "calibration_points") THEN DictGet(data, "calibration_points")
    ELSE <<>>

\* cls(**data) and the points read one by one.
Construct(cls, data, points_data) ==
    IF \/ \E i \in 1..Len(data) : data[i][1] \notin valid_fields
       \/ \E f \in RequiredFields(cls) : ~DictHas(data, f)
       \/ \E i \in 1..Len(points_data) : point_from_dict(points_data[i]) = None
    THEN None
    ELSE Some([f \in valid_fields \cup {"calibration_points"} |->
                 IF f = "calibration_points"
                 THEN [i \in 1..Len(points_data) |-> point_from_dict(points_data[i])[1]]
                 ELSE IF DictHas(data, f) THEN DictGet(data, f)
                 ELSE FieldDefault(cls, f)])

\* The dict without the keys that are not in keep.
RECURSIVE DictFilter(_, _)
DictFilter(data, keep) ==
    IF data = <<>> THEN <<>>
    ELSE LET rest == DictFilter(SubSeq(data, 2, Len(data)), keep)
         IN  IF data[1][1] \in keep THEN <<data[1]>> \o rest ELSE rest

\* NeedleCalibration.from_dict keeps the valid fields of the entry and
\* ignores the others; PositionBasedNeedleCalibration.from_dict hands every
\* key but calibration_points to the constructor.  None: TypeError.
from_dict(cls, data) ==
    IF cls = "NeedleCalibration"
    THEN Construct(cls, DictFilter(DictDel(data, "calibration_points"), valid_fields),
                   PoppedPoints(data))
    ELSE Construct(cls, DictDel(data, "calibration_points"), PoppedPoints(data))

\* gauge_preview.py, _save_needle_scales: the scale of the needle is written
\* into its entry of the config file.
save_needle_scale(entry, scale) == DictSet(entry, "needle_scale", scale)

-----------------------------------------------------------------------------
(* Saving and reloading a calibration *)

CalibrationClasses == {"NeedleCalibration", "PositionBasedNeedleCalibration"}

\* Needle geometries, as pivot and end on the needle image.
SessionNeedles == {<<0, 0, 0, 0>>, <<50, 200, 50, 20>>}

\* Value ranges of the gauge presets.
ValueRanges == {<<0, 100>>, <<0, 8000>>}

\* The needle scales the preview saves.
SavedScales == {Rat(4, 5), Rat(3, 2)}

\* The calibrations a session ends with.
Calibrations ==
    {[NeedleCalibration("main", "gauges/needle.svg", "Tachometer", r[1], r[2])
         EXCEPT !.needle_pivot_x = n[1], !.needle_pivot_y = n[2],
                !.needle_end_x = n[3], !.needle_end_y = n[4],
                !.gauge_pivot_x = 256, !.gauge_pivot_y = 256,
                !.calibration_points = points] :
        r \in ValueRanges, n \in SessionNeedles, points \in PointLists}

\* In this specification session is the calibration object in memory and
\* config its entry in the config file (None before the first save).
InitPersist ==
    /\ self \in CalibrationClasses
    /\ gauge_pivot \in Pivots
    /\ calibration_points = <<>>
    /\ needle_points = <<>>
    /\ gauge = None
    /\ config = None
    /\ session \in Calibrations
    /\ ret = Ret("__init__", <<>>, None)

\* The entry of the needle is replaced by the serialised calibration.
ToDict ==
    /\ self \in CalibrationClasses
    /\ config' = to_dict(session)
    /\ ret' = Ret("to_dict", <<>>, None)
    /\ UNCHANGED <<self, gauge_pivot, calibration_points, needle_points, gauge, session>>

SaveNeedleScales ==
    \E scale \in SavedScales :
        /\ self \in CalibrationClasses
        /\ config # None
        /\ config' = save_needle_scale(config, scale)
        /\ ret' = Ret("_save_needle_scales", <<scale>>, None)
        /\ UNCHANGED <<self, gauge_pivot, calibration_points, needle_points, gauge, session>>

\* The calibration is read back from its entry; on TypeError the object in
\* memory stays.
FromDict ==
    /\ self \in CalibrationClasses
    /\ config # None
    /\ LET calib == from_dict(self, config)
       IN  /\ session' = IF calib = None THEN session ELSE calib[1]
           /\ ret' = Ret("from_dict", <<>>, calib)
    /\ UNCHANGED <<self, gauge_pivot, calibration_points, needle_points, gauge, config>>

NextPersist ==
    \/ ToDict
    \/ SaveNeedleScales
    \/ FromDict

SpecPersist == InitPersist /\ [][NextPersist]_vars

-----------------------------------------------------------------------------
(* C20: the round trip through the persisted entry *)

\* The fields of the persisted schema the round trip is to keep.
PersistedFields ==
    {"needle_pivot_x", "needle_pivot_y", "needle_end_x", "needle_end_y",
     "gauge_pivot_x", "gauge_pivot_y", "calibration_points",
     "min_value", "max_value", "needle_scale"}

\* The angle a persisted entry resolves for a value.
EntryAngle(entry, value) ==
    LET points == DictGet(entry, "calibration_points")
    IN  value_to_angle(<<DictGet(entry, "gauge_pivot_x"), DictGet(entry, "gauge_pivot_y")>>,
                       points_from_list([i \in 1..Len(points) |->
                                            point_from_dict(points[i])[1]]),
                       value)

\* The entry and the calibration agree on a field of the schema.
FieldKept(entry, cal, f) ==
    DictHas(entry, f) =>
        /\ DictHas(to_dict(cal), f)
        /\ DictGet(to_dict(cal), f) = DictGet(entry, f)

\* C20: reloading a persisted needle_calibrations entry succeeds and yields
\* a calibration equal to the entry in every field of the persisted schema
\* (needle pivot and end, gauge pivot, the calibration points in order,
\* min/max value and needle_scale), so that value_to_angle returns the same
\* angle before and after for every probe value.
C20_RoundTrip ==
    (self \in CalibrationClasses /\ ret.op = "from_dict") =>
        /\ ret.angle # None
        /\ \A f \in PersistedFields : FieldKept(config, session, f)
        /\ \A value \in Values :
               RatEq(EntryAngle(config, value), EntryAngle(to_dict(session), value))

-----------------------------------------------------------------------------
(* Loading a calibration_points list with malformed entries *)

\* The entries of a persisted calibration_points list: two well-formed ones,
\* one without "value" and one without "x".
PersistedPoints ==
    {CalibrationPoint(256, 100, 0), CalibrationPoint(410, 256, MaxValue),
     [x |-> 256, y |-> 410], [y |-> 410, value |-> 1]}

PersistedLists == SeqUpTo(PersistedPoints, MaxList)

\* The needle_calibrations of a config file whose "main" entry holds the list.
PersistedData(points) ==
    <<<<"main", NeedleCal(<<256, 256>>, points, <<10, 100>>, <<10, 0>>, None, None)>>>>

LoadPersistedPoints ==
    \E points \in PersistedLists :
        LET loaded == load_v2_calibration(gauge, PersistedData(points), "main")
        IN  /\ self = "ImageBasedGauge"
            /\ gauge' = loaded.gauge
            /\ ret' = Ret("load_v2_calibration", <<points>>, loaded.result)
            /\ UNCHANGED <<self, gauge_pivot, calibration_points, needle_points, session, config>>

NextEntries == LoadPersistedPoints

SpecEntries == InitGauge /\ [][NextEntries]_vars

\* The well-formed entries of a list, in the order of the list.
WellFormed(points) == SelectSeq(points, LAMBDA p : ~Malformed(p))

\* C21: when the persisted calibration_points list holds a malformed entry
\* (one without x, y or value), loading the calibration skips that entry and
\* loads every well-formed entry of the list, those before it and those
\* after it: the load does not fail as a whole (it returns True) and the
\* calculator holds the well-formed entries, not a part of them.
C21_MalformedSkipped ==
    (self = "ImageBasedGauge" /\ ret.op = "load_v2_calibration") =>
        /\ ret.angle = TRUE
        /\ gauge.angle_calculator # None
        /\ gauge.angle_calculator[1].calibration_points
               = points_from_list(WellFormed(ret.args[1]))

-----------------------------------------------------------------------------
(* C22: value_to_angle is a pure function *)

\* What value_to_angle returns for a value on the calculator as it is after
\* the step.
AngleAfter(value) ==
    IF self = "AngleCalculator"
    THEN value_to_angle(gauge_pivot', calibration_points', value)
    ELSE needle_value_to_angle(needle_points', value)

C22_Step ==
    ret'.op = "value_to_angle" =>
        /\ calibration_points' = calibration_points
        /\ needle_points' = needle_points
        /\ gauge_pivot' = gauge_pivot
        /\ ret.op = "value_to_angle" => AngleAfter(ret.args[1]) = ret.angle

\* C22: value_to_angle is a pure function of the gauge pivot, the
\* calibration points and the value: a call leaves the calibration points
\* (content and order) and the gauge pivot as they are, and after a query of
\* another value the value queried before still resolves to the angle it
\* was given, in both calculators.
C22_Pure == [][C22_Step]_vars

\* A query answered by interpolation from a negative configured angle: the
\* configured angle is still negative afterwards.
C22_Witness ==
    /\ NeedleCalled
    /\ NNeedle = 2
    /\ needle_points[1].angle < 0
    /\ needle_points[1].value < Query
    /\ Query < needle_points[2].value
    /\ InRange(ret.angle)

-----------------------------------------------------------------------------
(* C26: the bracket search *)

\* Mutant: the search runs from the last segment down and takes the last
\* segment that brackets the value.
RECURSIVE BracketIndex_last(_, _, _)
BracketIndex_last(points, value, i) ==
    LET k == Len(points) - i
    IN  IF k < 1 THEN 0
        ELSE IF points[k].value <= value /\ value <= points[k + 1].value
             THEN k
             ELSE BracketIndex_last(points, value, i + 1)

\* for i in range(len(points) - 1): if points[i].value <= value <=
\* points[i + 1].value: the index (from 1) of the segment whose body runs,
\* 0 when the loop ends without one (the fall-through return).
RECURSIVE BracketIndex(_, _, _)
BracketIndex(points, value, i) ==
    IF i > Len(points) - 1 THEN 0
    ELSE IF points[i].value <= value /\ value <= points[i + 1].value
         THEN i
         ELSE BracketIndex(points, value, i + 1)

\* The value is strictly between the least and the greatest calibration value.
StrictlyInside(points, value) ==
    /\ points # <<>>
    /\ points[1].value < value
    /\ value < points[Len(points)].value

-----------------------------------------------------------------------------
(* The two interpolation strategies on one calibration *)

\* An AngleCalculator and a NeedleAngleCalculator, both without points.
InitStrategies ==
    /\ self = "AngleCalculator, NeedleAngleCalculator"
    /\ gauge_pivot \in Pivots
    /\ calibration_points = <<>>
    /\ needle_points = <<>>
    /\ gauge = None
    /\ session = None
    /\ config = None
    /\ ret = Ret("init", <<>>, Int2Rat(0))

\* add_point on both: the pixel position on the one, its bearing on the other.
AddPointToBoth ==
    \E c \in Clicks, v \in Values :
        /\ self = "AngleCalculator, NeedleAngleCalculator"
        /\ Len(calibration_points) < MaxPoints
        /\ calibration_points' = add_point(calibration_points, c[1], c[2], v)
        /\ needle_points' =
               needle_add_point(needle_points, v,
                                calculate_angle_to_point(gauge_pivot[1], gauge_pivot[2],
                                                         c[1], c[2]))
        /\ ret' = Ret("add_point", <<>>, Int2Rat(0))
        /\ UNCHANGED <<self, gauge_pivot, gauge, session, config>>

\* value_to_angle on both, the two results side by side.
ValueToAngleOfBoth ==
    \E v \in Queries :
        /\ self = "AngleCalculator, NeedleAngleCalculator"
        /\ ret' = Ret("value_to_angle", <<v>>,
                      <<value_to_angle(gauge_pivot, calibration_points, v),
                        needle_value_to_angle(needle_points, v)>>)
        /\ UNCHANGED <<self, gauge_pivot, calibration_points, needle_points, gauge, session, config>>

NextStrategies ==
    \/ AddPointToBoth
    \/ ValueToAngleOfBoth

SpecStrategies == InitStrategies /\ [][NextStrategies]_vars

-----------------------------------------------------------------------------
(* C27: global unwrap and per-segment correction *)

BothCalled == self = "AngleCalculator, NeedleAngleCalculator" /\ ret.op = "value_to_angle"

\* Every configured angle lies in [0, 360).
AnglesInTurn ==
    \A i \in 1..NNeedle : 0 <= needle_points[i].angle /\ needle_points[i].angle < FullTurn

\* Two neighbouring points are opposite: their angles differ by 180.
Opposite(i) ==
    \/ needle_points[i + 1].angle - needle_points[i].angle = HalfTurn
    \/ needle_points[i].angle - needle_points[i + 1].angle = HalfTurn

\* C27 as stated: for every calibration whose angles all lie in [0, 360) the
\* per-segment correction returns the angle the global unwrap returns, for
\* every value.
C27_Original ==
    (BothCalled /\ AnglesInTurn) => RatEq(ret.angle[1], ret.angle[2])

\* C27 (amended): for every calibration whose angles all lie in [0, 360) and
\* in which no two neighbouring points are opposite (180 apart), the
\* per-segment correction returns the angle the global unwrap returns, for
\* every value.
C27_SameUnlessOpposite ==
    (BothCalled /\ AnglesInTurn /\ \A i \in 1..(NNeedle - 1) : ~Opposite(i)) =>
        RatEq(ret.angle[1], ret.angle[2])

\* A sweep across the 0/360 seam: 270 to 0, queried inside the segment; one
\* strategy unwraps 0 to 360, the other corrects the range -270 to +90.
C27_Witness ==
    /\ BothCalled
    /\ NNeedle >= 2
    /\ \E i \in 1..(NNeedle - 1) :
          /\ needle_points[i].angle = 270
          /\ needle_points[i + 1].angle = 0
          /\ needle_points[i].value < Query
          /\ Query < needle_points[i + 1].value
    /\ RatEq(ret.angle[1], ret.angle[2])
    /\ RatLt(Int2Rat(270), ret.angle[1])

-----------------------------------------------------------------------------
(* C28: the order of the add_point calls *)

\* The values of the points are pairwise distinct.
DistinctValues(points) ==
    \A i, j \in 1..Len(points) : i # j => points[i].value # points[j].value

\* The points of the calculator, added in the order perm.
AddedInOrder(perm) ==
    points_from_list([i \in 1..NPoints |-> calibration_points[perm[i]]])

\* C28: for calibration points with pairwise distinct values the result of
\* value_to_angle does not depend on the order of the add_point calls: the
\* same points added in any other order resolve every value to the same
\* angle.
C28_OrderIndependent ==
    (/\ self = "AngleCalculator"
     /\ ret.op \in {"add_point", "points_from_list"}
     /\ DistinctValues(calibration_points)) =>
        \A perm \in Permutations(1..NPoints) :
            \A v \in Queries :
                RatEq(value_to_angle(gauge_pivot, AddedInOrder(perm), v),
                      value_to_angle(gauge_pivot, calibration_points, v))

\* Two points given with the greater value first: the calculator holds them
\* the other way round.
C28_Witness ==
    /\ self = "AngleCalculator"
    /\ ret.op = "points_from_list"
    /\ Len(ret.args[1]) = 2
    /\ ret.args[1][1].value > ret.args[1][2].value
    /\ calibration_points = <<ret.args[1][2], ret.args[1][1]>>

-----------------------------------------------------------------------------
(* C23: when add_calibration_point appends *)

\* A click position has been recorded by on_gauge_click.
ClickRecorded(s) == s.last_click_x # None

C23_Step ==
    (/\ ret'.op = "add_calibration_point"
     /\ GaugePivotPending(session) \/ ~ClickRecorded(session)) =>
        PointsOf(session') = PointsOf(session)

\* C23: add_calibration_point appends a point only while the gauge pivot of
\* the calibration is set and a click on the gauge image has been recorded:
\* with the pivot unset, or without a recorded click, the list of points is
\* left as it was.
C23_AddNeedsPivotAndClick == [][C23_Step]_vars

-----------------------------------------------------------------------------
(* C24: the edits of the list of points *)

\* Everything of the session but the list of points is as it was.
OnlyPointsChange ==
    /\ SameExcept(session, session', {"calibration_points"})
    /\ WaitingOf(session') = WaitingOf(session)
    /\ LastClickOf(session') = LastClickOf(session)

\* The steps of delete_last_calibration_point and of a confirmed
\* clear_all_calibration_points.
C24_RemovalStep ==
    /\ ret'.op = "delete_last_calibration_point" =>
         /\ OnlyPointsChange
         /\ PointsOf(session) # <<>> =>
              PointsOf(session) =
                  Append(PointsOf(session'), PointsOf(session)[Len(PointsOf(session))])
         /\ PointsOf(session) = <<>> => session' = session
    /\ (ret'.op = "clear_all_calibration_points" /\ ret'.args = <<"Yes">>) =>
         /\ OnlyPointsChange
         /\ PointsOf(session') = <<>>

C24_OriginalStep ==
    /\ C24_RemovalStep
    /\ ret'.op = "add_calibration_point" =>
         Len(PointsOf(session')) = Len(PointsOf(session)) + 1

\* C24 as stated: delete_last_calibration_point removes exactly the point
\* added last and changes nothing else, and nothing at all on an empty list;
\* a confirmed clear_all_calibration_points leaves no point; and every
\* add_calibration_point makes the list one point longer.
C24_Original == [][C24_OriginalStep]_vars

C24_Step ==
    /\ C24_RemovalStep
    /\ ret'.op = "add_calibration_point" =>
         /\ OnlyPointsChange
         /\ ClickRecorded(session) =>
              PointsOf(session') =
                  Append(PointsOf(session),
                         CalibrationPoint(session.last_click_x[1],
                                          session.last_click_y[1], ret'.args[1]))
         /\ ~ClickRecorded(session) => session' = session

\* C24: delete_last_calibration_point removes exactly the point added last
\* (the list is in insertion order, not value order) and changes nothing
\* else, and nothing at all on an empty list; a confirmed
\* clear_all_calibration_points leaves no point; add_calibration_point
\* appends one point, at the recorded click with the value entered, when a
\* click has been recorded, and changes nothing when none has.
C24_PointListEdits == [][C24_Step]_vars

\* Two points were added with the higher value first, and the last one has
\* been deleted: the point that is left is the one of the higher value.
C24_Witness ==
    /\ self = "GaugeCalibratorV2"
    /\ ret.op = "delete_last_calibration_point"
    /\ GaugePivotOf(session) = <<256, 256>>
    /\ ClickRecorded(session)
    /\ Len(PointsOf(session)) = 1
    /\ PointsOf(session)[1].value = 100

-----------------------------------------------------------------------------
(* C29: the two flags of the needle clicks *)

\* Both needle points are awaited at once.
BothAwaited(s) == s.waiting_for_needle_pivot /\ s.waiting_for_needle_end

C29_Step ==
    /\ ~BothAwaited(session)
    /\ ~BothAwaited(session')
    /\ (ret'.op = "on_needle_pivot_click" /\ WaitingOf(session) = <<FALSE, FALSE>>) =>
         /\ NeedlePivotOf(session') = NeedlePivotOf(session)
         /\ NeedleEndOf(session') = NeedleEndOf(session)

\* C29: waiting_for_needle_pivot and waiting_for_needle_end are never both
\* true, and a click on the needle image received while both are false
\* changes neither the needle pivot nor the needle end.
C29_FlagsExclusive == [][C29_Step]_vars

\* A third click on the needle image has been received with both flags
\* false: the pivot and the end are those of the first two clicks.
C29_Witness ==
    /\ self = "GaugeCalibratorV2"
    /\ ret.op = "on_needle_pivot_click"
    /\ ret.args = <<256, 256>>
    /\ WaitingOf(session) = <<FALSE, FALSE>>
    /\ NeedlePivotOf(session) = <<0, 120>>
    /\ NeedleEndOf(session) = <<0, 120>>

-----------------------------------------------------------------------------
(* C30: the gauge pivot once set *)

C30_Step ==
    (ret'.op = "on_gauge_click" /\ GaugePivotOf(session) # <<0, 0>>) =>
        GaugePivotOf(session') = GaugePivotOf(session)

\* C30: once a click on the gauge image has set the gauge pivot, at any
\* pixel the image reports, a later click on the gauge image leaves the
\* pivot where it is.
C30_PivotKeptUntilReset == [][C30_Step]_vars

-----------------------------------------------------------------------------
(* gauge_calibrator_v2.py: the calibration sets of a needle.

   current_calibration and the values of calibration_sets refer to
   NeedleCalibration objects, and every value of calibration_sets is an
   object of its own.  alias holds the key of calibration_sets whose object
   current_calibration refers to, and None when current_calibration refers
   to an object that calibration_sets does not hold.  config is the
   needle_calibrations dict of the gauge's config file, None while there is
   no file. *)

\* At most this many calibration sets are added for a needle.
MaxSets == 2

\* gauge_combo.currentText()
GaugeCombo == "Fuel"

\* NEEDLE_TYPES of the gauge.
NeedleTypes == <<"fuel", "water">>

\* str.lower() of a gauge name.
lower(gauge_name) == IF gauge_name = "Fuel" THEN "fuel" ELSE gauge_name

\* A write through current_calibration is a write to the object it refers
\* to, so the entry of calibration_sets that holds this object shows it.
Shared(s) ==
    IF s.alias = None THEN s
    ELSE [s EXCEPT !.calibration_sets = DictSet(@, s.alias[1], s.current_calibration)]

\* _schedule_autosave, outside a handler that suspends it.
schedule_autosave(s) == [s EXCEPT !.autosave_timer = TRUE]

\* _update_calibration_set_combo
update_calibration_set_combo(s) ==
    LET name == IF DictHas(s.calibration_sets, s.current_set_name)
                THEN s.current_set_name
                ELSE s.calibration_sets[1][1]
    IN  [s EXCEPT !.current_set_name = name,
                  !.current_calibration = DictGet(s.calibration_sets, name),
                  !.alias = Some(name)]

\* The loop of load_calibration_sets_for_needle over the entries of the
\* file: the entries of the needle, each under the name of its set; raised
\* when from_dict raises, with the sets read before.
RECURSIVE SetsOfNeedle(_, _, _)
SetsOfNeedle(needle_calibrations, needle_id, sets) ==
    IF needle_calibrations = <<>>
    THEN [calibration_sets |-> sets, raised |-> FALSE]
    ELSE LET cal_data == Head(needle_calibrations)[2]
             rest == Tail(needle_calibrations)
         IN  IF ~(DictHas(cal_data, "needle_id") /\ DictGet(cal_data, "needle_id") = needle_id)
             THEN SetsOfNeedle(rest, needle_id, sets)
             ELSE LET set_name == IF DictHas(cal_data, "calibration_set")
                                  THEN DictGet(cal_data, "calibration_set")
                                  ELSE "set1"
                      cal == from_dict("NeedleCalibration", cal_data)
                  IN  IF cal = None
                      THEN [calibration_sets |-> sets, raised |-> TRUE]
                      ELSE SetsOfNeedle(rest, needle_id, DictSet(sets, set_name, cal[1]))

\* load_calibration_sets_for_needle: the sets of the file, or one set of
\* defaults; an exception is logged and leaves the sets read so far.
load_calibration_sets_for_needle(s, needle_calibrations, gauge_name, needle_id) ==
    LET default == <<<<"set1", NeedleCalibration(needle_id, "", gauge_name, 0, 100)>>>>
    IN  IF needle_calibrations = None
        THEN update_calibration_set_combo([s EXCEPT !.calibration_sets = default])
        ELSE LET loaded == SetsOfNeedle(needle_calibrations[1], needle_id, <<>>)
             IN  IF loaded.raised
                 THEN [s EXCEPT !.calibration_sets = loaded.calibration_sets,
                                !.alias = None]
                 ELSE update_calibration_set_combo(
                          [s EXCEPT !.calibration_sets =
                                        IF loaded.calibration_sets = <<>> THEN default
                                        ELSE loaded.calibration_sets])

\* on_needle_changed: the current calibration is renamed, the sets of the
\* needle are loaded (_auto_load_configuration), the needle pivot is awaited.
on_needle_changed(s, needle_calibrations, needle_name) ==
    LET renamed == [s EXCEPT !.current_calibration.needle_id = needle_name,
                             !.current_calibration.gauge_name = GaugeCombo,
                             !.current_calibration.min_value = 0,
                             !.current_calibration.max_value = 100]
        loaded == load_calibration_sets_for_needle(
                      renamed, needle_calibrations,
                      lower(renamed.current_calibration.gauge_name),
                      renamed.current_calibration.needle_id)
    IN  [loaded EXCEPT !.waiting_for_needle_pivot = TRUE,
                       !.waiting_for_needle_end = FALSE]

\* __init__ and on_gauge_changed for a gauge without a config file: no
\* sets, a new calibration for the first needle, and on_needle_changed.
on_gauge_changed(gauge_name) ==
    on_needle_changed(
        [current_calibration |-> NeedleCalibration(NeedleTypes[1], "", gauge_name, 0, 100),
         alias |-> None,
         calibration_sets |-> <<>>,
         current_set_name |-> "set1",
         waiting_for_needle_pivot |-> FALSE,
         waiting_for_needle_end |-> FALSE,
         last_click_x |-> None,
         last_click_y |-> None,
         click_callback |-> "on_gauge_click",
         autosave_timer |-> FALSE],
        None, NeedleTypes[1])

\* on_calibration_set_changed
on_calibration_set_changed(s, set_name) ==
    IF ~DictHas(s.calibration_sets, set_name) THEN s
    ELSE [s EXCEPT !.current_set_name = set_name,
                   !.current_calibration = DictGet(s.calibration_sets, set_name),
                   !.alias = Some(set_name)]

\* The first i from which f"set{i}" names no set.
RECURSIVE FreeSetIndex(_, _)
FreeSetIndex(sets, i) ==
    IF DictHas(sets, "set" \o ToString(i)) THEN FreeSetIndex(sets, i + 1) ELSE i

\* add_calibration_set: a new set with the needle geometry of the current
\* calibration becomes the current one.
add_calibration_set(s) ==
    LET new_set_name ==
            "set" \o ToString(FreeSetIndex(s.calibration_sets, Len(s.calibration_sets) + 1))
        cur == s.current_calibration
        new_cal == [NeedleCalibration(cur.needle_id, cur.needle_image_path,
                                      cur.gauge_name, cur.min_value, cur.max_value)
                       EXCEPT !.needle_pivot_x = cur.needle_pivot_x,
                              !.needle_pivot_y = cur.needle_pivot_y,
                              !.needle_end_x = cur.needle_end_x,
                              !.needle_end_y = cur.needle_end_y]
    IN  update_calibration_set_combo(
            [s EXCEPT !.calibration_sets = DictSet(@, new_set_name, new_cal),
                      !.current_set_name = new_set_name,
                      !.current_calibration = new_cal,
                      !.alias = Some(new_set_name)])

\* delete_calibration_set, answered with reply: refused for the last set;
\* `del` of a name that is no key raises KeyError and changes nothing.
delete_calibration_set(s, reply) ==
    IF \/ Len(s.calibration_sets) <= 1
       \/ reply # "Yes"
       \/ ~DictHas(s.calibration_sets, s.current_set_name)
    THEN s
    ELSE LET sets == DictDel(s.calibration_sets, s.current_set_name)
         IN  update_calibration_set_combo(
                 [s EXCEPT !.calibration_sets = sets,
                           !.current_set_name = sets[1][1],
                           !.current_calibration = sets[1][2],
                           !.alias = Some(sets[1][1])])

\* load_configuration: the entry stored under the needle's id, when the
\* file has one, is read into a new object; nothing on an exception.
load_configuration(s, needle_calibrations) ==
    IF needle_calibrations = None THEN s
    ELSE LET needle_id == s.current_calibration.needle_id
         IN  IF ~DictHas(needle_calibrations[1], needle_id) THEN s
             ELSE LET cal == from_dict("NeedleCalibration",
                                       DictGet(needle_calibrations[1], needle_id))
                  IN  IF cal = None THEN s
                      ELSE [s EXCEPT !.current_calibration = cal[1],
                                     !.alias = None]

\* _autosave_current_calibration: the current calibration is written under
\* the needle's id.
autosave_current_calibration(s, needle_calibrations) ==
    Some(DictSet(IF needle_calibrations = None THEN <<>> ELSE needle_calibrations[1],
                 s.current_calibration.needle_id,
                 to_dict(s.current_calibration)))

\* The state after on_gauge_changed("Fuel") without a config file.
InitSets ==
    /\ self = "GaugeCalibratorV2"
    /\ gauge_pivot \in Pivots
    /\ calibration_points = <<>>
    /\ needle_points = <<>>
    /\ gauge = None
    /\ config = None
    /\ session = on_gauge_changed(GaugeCombo)
    /\ ret = Ret("on_gauge_changed", <<GaugeCombo>>, None)

\* needle_combo: another needle of the gauge is selected.
OnNeedleChanged ==
    \E i \in 1..Len(NeedleTypes) :
        /\ NeedleTypes[i] # session.current_calibration.needle_id
        /\ session' = on_needle_changed(session, config, NeedleTypes[i])
        /\ ret' = Ret("on_needle_changed", <<NeedleTypes[i]>>, None)
        /\ UNCHANGED <<self, gauge_pivot, calibration_points, needle_points, gauge, config>>

\* calibration_set_combo: another entry of the combo is selected.
OnCalibrationSetChanged ==
    \E i \in 1..Len(session.calibration_sets) :
        /\ session.calibration_sets[i][1] # session.current_set_name
        /\ session' = on_calibration_set_changed(session, session.calibration_sets[i][1])
        /\ ret' = Ret("on_calibration_set_changed", <<session.calibration_sets[i][1]>>, None)
        /\ UNCHANGED <<self, gauge_pivot, calibration_points, needle_points, gauge, config>>

AddCalibrationSet ==
    /\ Len(session.calibration_sets) < MaxSets
    /\ session' = add_calibration_set(session)
    /\ ret' = Ret("add_calibration_set", <<>>, None)
    /\ UNCHANGED <<self, gauge_pivot, calibration_points, needle_points, gauge, config>>

DeleteCalibrationSet ==
    \E reply \in Replies :
        /\ session' = delete_calibration_set(session, reply)
        /\ ret' = Ret("delete_calibration_set", <<reply>>, None)
        /\ UNCHANGED <<self, gauge_pivot, calibration_points, needle_points, gauge, config>>

LoadConfiguration ==
    /\ session' = load_configuration(session, config)
    /\ ret' = Ret("load_configuration", <<>>, None)
    /\ UNCHANGED <<self, gauge_pivot, calibration_points, needle_points, gauge, config>>

\* mousePressEvent on the gauge image: on_gauge_click writes through
\* current_calibration and schedules the autosave when it set the pivot.
GaugeClick ==
    \E click \in ImageClicks :
        /\ session' = LET clicked == Shared(on_gauge_click(session, click[1], click[2]))
                      IN  IF GaugePivotPending(session) THEN schedule_autosave(clicked)
                          ELSE clicked
        /\ ret' = Ret("on_gauge_click", click, None)
        /\ UNCHANGED <<self, gauge_pivot, calibration_points, needle_points, gauge, config>>

\* The single-shot autosave timer fires.
AutosaveCurrentCalibration ==
    /\ session.autosave_timer
    /\ config' = autosave_current_calibration(session, config)
    /\ session' = [session EXCEPT !.autosave_timer = FALSE]
    /\ ret' = Ret("_autosave_current_calibration", <<>>, None)
    /\ UNCHANGED <<self, gauge_pivot, calibration_points, needle_points, gauge>>

NextSets ==
    \/ OnNeedleChanged
    \/ OnCalibrationSetChanged
    \/ AddCalibrationSet
    \/ DeleteCalibrationSet
    \/ LoadConfiguration
    \/ GaugeClick
    \/ AutosaveCurrentCalibration

SpecSets == InitSets /\ [][NextSets]_vars

-----------------------------------------------------------------------------
(* C25: the current calibration is the current set *)

\* current_calibration refers to the object stored under current_set_name.
CurrentIsStored(s) ==
    /\ DictHas(s.calibration_sets, s.current_set_name)
    /\ s.alias = Some(s.current_set_name)
    /\ s.current_calibration = DictGet(s.calibration_sets, s.current_set_name)

\* C25: once a needle is loaded, calibration_sets is never empty,
\* current_set_name is one of its keys, and current_calibration is the very
\* calibration stored under that key, whatever sets were added, deleted or
\* selected, whatever needle was selected and whatever was loaded; the last
\* set is never deleted.
C25_CurrentIsStoredSet ==
    /\ session.calibration_sets # <<>>
    /\ CurrentIsStored(session)

====
